---- MODULE Spec2Model ----
(***************************************************************************)
(* Model of the analytics core of open-meteo-mcp:                          *)
(*   helpers.generate_weather_alerts     (hourly/daily alert engine)       *)
(*   helpers.calculate_comfort_index     (comfort index)                   *)
(*   server.get_weather_alerts           (snapshot alert tool)             *)
(*   helpers.assess_ski_conditions       (ski grade)                       *)
(*   helpers.interpret_weather_code      (WMO code table)                  *)
(*   helpers.get_travel_impact           (severity to travel impact)       *)
(*   helpers.calculate_astronomy_data    (sunrise, sunset, golden hour)    *)
(*   client.search_location              (country filter of geocoding)     *)
(*   server.get_comfort_index            (comfort tool)                    *)
(*   server.compare_locations            (ranking of locations)            *)
(* Python values are modelled as tagged records (number, None, string) so  *)
(* that a comparison the interpreter would reject raises in the model too. *)
(* Lists are sequences; Python's 0-based index i is position i+1.          *)
(***************************************************************************)
EXTENDS Integers, Sequences, FiniteSets, TLC

VARIABLES
    pc,             \* "call" before the operation, "done" after it
    current,        \* generate_weather_alerts: argument current
    hourly,         \* generate_weather_alerts: argument hourly
    daily,          \* generate_weather_alerts: argument daily
    alerts,         \* generate_weather_alerts: returned list
    weather,        \* calculate_comfort_index: argument weather
    air_quality,    \* calculate_comfort_index: argument air_quality
    comfort,        \* calculate_comfort_index: returned record
    forecast,       \* get_weather_alerts tool: forecast the weather fetch returns
    aq_service,     \* get_weather_alerts tool: what the air-quality service holds
    forecast_hours, \* get_weather_alerts tool: argument forecast_hours
    response,       \* get_weather_alerts tool: returned record, or raised
    snow_data,      \* assess_ski_conditions: argument snow_data
    weather_data,   \* assess_ski_conditions: argument weather_data
    grade,          \* assess_ski_conditions: returned grade, or raised
    code_arg,       \* interpret_weather_code, get_travel_impact: argument code
    interpretation, \* interpret_weather_code: returned record
    impact,         \* get_travel_impact: returned impact
    latitude,       \* calculate_astronomy_data: argument latitude
    longitude,      \* calculate_astronomy_data: argument longitude
    timezone,       \* calculate_astronomy_data: argument timezone
    now,            \* calculate_astronomy_data: the clock, datetime.now()
    astronomy,      \* calculate_astronomy_data: returned record
    country,        \* search_location: argument country
    geocoding,      \* search_location: what the geocoding service answers
    found,          \* search_location: returned results, or raised
    weather_forecast,      \* get_comfort_index: what the forecast service answers
    air_quality_forecast,  \* get_comfort_index: what the air quality service answers
    comfort_response,      \* get_comfort_index: returned dict, or raised
    locations,      \* compare_locations: the locations, each with what the services answer for it
    criteria,       \* compare_locations: argument criteria
    comparison      \* compare_locations: returned dict, or raised

alertVars == <<current, hourly, daily, alerts>>
comfortVars == <<weather, air_quality, comfort>>
snapshotVars == <<forecast, aq_service, forecast_hours, response>>

skiVars == <<snow_data, weather_data, grade>>
codeVars == <<code_arg, interpretation, impact>>

astronomyVars == <<latitude, longitude, timezone, now, astronomy>>

searchVars == <<country, geocoding, found>>

comfortToolVars == <<weather_forecast, air_quality_forecast, comfort_response>>

compareVars == <<locations, criteria, comparison>>

vars == <<pc, alertVars, comfortVars, snapshotVars, skiVars, codeVars,
          astronomyVars, searchVars, comfortToolVars, compareVars>>

----------------------------------------------------------------------------
(* Python values *)

Num(x) == [t |-> "num", v |-> x]
PyNone == [t |-> "none", v |-> 0]
PyStr == [t |-> "str", v |-> 0]

IsNum(x) == x.t = "num"

\* bool(x): None and 0 are falsy, a non-empty string and a non-zero number truthy
Truthy(x) == (x.t = "str") \/ (x.t = "num" /\ x.v # 0)

\* the empty dict {}
EmptyDict == [k \in {} |-> 0]

\* d.get(k, default)
Get(d, k, default) == IF k \in DOMAIN d THEN d[k] ELSE default

\* bool(d) of a dict
NonEmpty(d) == DOMAIN d # {}

Min(a, b) == IF a < b THEN a ELSE b
Max(a, b) == IF a > b THEN a ELSE b

SetMin(S) == CHOOSE x \in S : \A y \in S : x <= y
SetMax(S) == CHOOSE x \in S : \A y \in S : x >= y

\* s[:k]
Take(s, k) == SubSeq(s, 1, Min(k, Len(s)))

\* s[i] for a 0-based index i that is in range
At(s, i) == s[i + 1]

\* 0-based indices of s
Indices(s) == 0 .. (Len(s) - 1)

----------------------------------------------------------------------------
(* Alert records.  start and end are either an entry of the hourly time    *)
(* series or the wall clock plus a number of hours.                        *)

FromSeries(ts) == [src |-> "series", v |-> ts]
FromNow(h) == [src |-> "now", v |-> h]

Alert(type, severity, start, end) ==
    [type |-> type, severity |-> severity, start |-> start, end |-> end]

\* outcome of evaluating one rule inside the try block
Ok(out) == [raised |-> FALSE, out |-> out]
Raised == [raised |-> TRUE, out |-> <<>>]

\* number of the first 24 hourly temperatures above 30
HeatWindow == 24

heat_hours(hourly_temps) ==
    Cardinality({i \in Indices(Take(hourly_temps, HeatWindow)) :
                    At(hourly_temps, i).v > 30})

\* HEAT ALERT
heat_alert(hourly_temps, hourly_times) ==
    IF hourly_temps = <<>> THEN Ok(<<>>)
    ELSE IF \E i \in Indices(Take(hourly_temps, HeatWindow)) :
                ~IsNum(At(hourly_temps, i))
    THEN Raised                                   \* TypeError in t > 30
    ELSE LET hh == heat_hours(hourly_temps) IN
         IF hh >= 3
         THEN IF hourly_times # <<>>
              THEN IF Min(24, hh) >= Len(hourly_times)
                   THEN Raised                    \* IndexError
                   ELSE Ok(<<Alert("heat",
                                   IF hh < 6 THEN "watch" ELSE "warning",
                                   FromSeries(At(hourly_times, 0)),
                                   FromSeries(At(hourly_times, Min(24, hh))))>>)
              ELSE Ok(<<Alert("heat",
                              IF hh < 6 THEN "watch" ELSE "warning",
                              FromNow(0), FromNow(6))>>)
         ELSE Ok(<<>>)

\* any(t < -10 for t in hourly_temps[:24]): stops at the first true element,
\* raises on a non-number met before it
AnyBelow(temps) ==
    LET first24 == Take(temps, HeatWindow)
        hits == {i \in Indices(first24) :
                    IsNum(At(first24, i)) /\ At(first24, i).v < -10}
        bad == {i \in Indices(first24) : ~IsNum(At(first24, i))}
    IN  IF bad # {} /\ (hits = {} \/ SetMin(bad) < SetMin(hits))
        THEN [raised |-> TRUE, val |-> FALSE]
        ELSE [raised |-> FALSE, val |-> hits # {}]

\* variant: the cold window written end first
cold_alert_reversed(current_temp, hourly_temps, hourly_times) ==
    IF ~IsNum(current_temp) THEN Raised
    ELSE LET any == AnyBelow(hourly_temps) IN
         IF ~(current_temp.v < -10) /\ any.raised THEN Raised
         ELSE IF current_temp.v < -10 \/ any.val
         THEN Ok(<<Alert("cold",
                         IF current_temp.v > -20 THEN "watch" ELSE "warning",
                         IF hourly_times # <<>>
                         THEN FromSeries(At(hourly_times,
                                            Min(12, Len(hourly_times) - 1)))
                         ELSE FromNow(12),
                         IF hourly_times # <<>>
                         THEN FromSeries(At(hourly_times, 0))
                         ELSE FromNow(0))>>)
         ELSE Ok(<<>>)

\* COLD ALERT
cold_alert(current_temp, hourly_temps, hourly_times) ==
    IF ~IsNum(current_temp) THEN Raised           \* TypeError in current_temp < -10
    ELSE LET any == AnyBelow(hourly_temps) IN
         IF ~(current_temp.v < -10) /\ any.raised THEN Raised
         ELSE IF current_temp.v < -10 \/ any.val
         THEN Ok(<<Alert("cold",
                         IF current_temp.v > -20 THEN "watch" ELSE "warning",
                         IF hourly_times # <<>>
                         THEN FromSeries(At(hourly_times, 0))
                         ELSE FromNow(0),
                         IF hourly_times # <<>>
                         THEN FromSeries(At(hourly_times,
                                            Min(12, Len(hourly_times) - 1)))
                         ELSE FromNow(12))>>)
         ELSE Ok(<<>>)

\* [i for i, w in enumerate(ws) if w and lo < w <= hi]; hi = -1 means no upper bound
BandRaises(ws) == \E i \in Indices(ws) : At(ws, i).t = "str"

BandHours(ws, lo, hi) ==
    {i \in Indices(ws) : /\ Truthy(At(ws, i))
                         /\ At(ws, i).v > lo
                         /\ (hi = -1 \/ At(ws, i).v <= hi)}

high_wind_hours(hourly_winds) == BandHours(hourly_winds, 80, -1)

thunderstorm_codes(daily_codes) ==
    {i \in Indices(daily_codes) : At(daily_codes, i) \in {95, 96, 99}}

\* variant: the storm window ends two hours after the first high-wind hour
storm_alert_first_plus_two(hourly_winds, daily_codes, hourly_times) ==
    IF BandRaises(hourly_winds) THEN Raised
    ELSE LET high == high_wind_hours(hourly_winds)
             codes == thunderstorm_codes(daily_codes)
         IN  IF high # {} \/ codes # {}
             THEN IF high # {} /\ hourly_times # <<>>
                  THEN IF SetMin(high) >= Len(hourly_times)
                       THEN Raised
                       ELSE Ok(<<Alert("storm", "warning",
                                       FromSeries(At(hourly_times, SetMin(high))),
                                       FromSeries(At(hourly_times,
                                           Min(SetMin(high) + 2,
                                               Len(hourly_times) - 1))))>>)
                  ELSE Ok(<<Alert("storm", "warning", FromNow(0), FromNow(4))>>)
             ELSE Ok(<<>>)

\* STORM ALERT
storm_alert(hourly_winds, daily_codes, hourly_times) ==
    IF BandRaises(hourly_winds) THEN Raised
    ELSE LET high == high_wind_hours(hourly_winds)
             codes == thunderstorm_codes(daily_codes)
         IN  IF high # {} \/ codes # {}
             THEN IF high # {} /\ hourly_times # <<>>
                  THEN IF SetMin(high) >= Len(hourly_times)
                       THEN Raised                \* IndexError
                       ELSE Ok(<<Alert("storm", "warning",
                                       FromSeries(At(hourly_times, SetMin(high))),
                                       FromSeries(At(hourly_times,
                                           Min(SetMax(high) + 2,
                                               Len(hourly_times) - 1))))>>)
                  ELSE Ok(<<Alert("storm", "warning", FromNow(0), FromNow(4))>>)
             ELSE Ok(<<>>)

high_uv_hours(hourly_uvs) == BandHours(hourly_uvs, 8, -1)

\* UV ALERT
uv_alert(hourly_uvs, hourly_times) ==
    IF BandRaises(hourly_uvs) THEN Raised
    ELSE LET high == high_uv_hours(hourly_uvs) IN
         IF high # {}
         THEN IF hourly_times # <<>>
              THEN IF SetMin(high) >= Len(hourly_times)
                   THEN Raised                    \* IndexError
                   ELSE Ok(<<Alert("uv", "advisory",
                                   FromSeries(At(hourly_times, SetMin(high))),
                                   FromSeries(At(hourly_times,
                                       Min(SetMax(high) + 1,
                                           Len(hourly_times) - 1))))>>)
              ELSE Ok(<<Alert("uv", "advisory", FromNow(0), FromNow(3))>>)
         ELSE Ok(<<>>)

moderate_wind_hours(hourly_winds) == BandHours(hourly_winds, 50, 80)

\* HIGH WIND ALERT
wind_alert(hourly_winds, hourly_times) ==
    IF BandRaises(hourly_winds) THEN Raised
    ELSE LET moderate == moderate_wind_hours(hourly_winds)
             high == high_wind_hours(hourly_winds)
         IN  IF moderate # {} /\ high = {}
             THEN IF hourly_times # <<>>
                  THEN IF SetMin(moderate) >= Len(hourly_times)
                       THEN Raised                \* IndexError
                       ELSE Ok(<<Alert("wind", "advisory",
                                       FromSeries(At(hourly_times, SetMin(moderate))),
                                       FromSeries(At(hourly_times,
                                           Min(SetMax(moderate) + 1,
                                               Len(hourly_times) - 1))))>>)
                  ELSE Ok(<<Alert("wind", "advisory", FromNow(0), FromNow(2))>>)
             ELSE Ok(<<>>)

\* The five rules run in one try block: the first rule that raises ends the
\* evaluation and the alerts appended so far are returned.
RunRules(r1, r2, r3, r4, r5) ==
    IF r1.raised THEN <<>>
    ELSE IF r2.raised THEN r1.out
    ELSE IF r3.raised THEN r1.out \o r2.out
    ELSE IF r4.raised THEN r1.out \o r2.out \o r3.out
    ELSE IF r5.raised THEN r1.out \o r2.out \o r3.out \o r4.out
    ELSE r1.out \o r2.out \o r3.out \o r4.out \o r5.out

\* variant: an empty current record read with its defaults
generate_weather_alerts_current_optional(cur, hrly, dly) ==
    IF ~NonEmpty(hrly) \/ ~NonEmpty(dly) THEN <<>>
    ELSE LET current_temp == Get(cur, "temperature", Num(20))
             hourly_temps == Get(hrly, "temperature_2m", <<>>)
             hourly_winds == Get(hrly, "wind_gusts_10m", <<>>)
             hourly_uvs == Get(hrly, "uv_index", <<>>)
             hourly_times == Get(hrly, "time", <<>>)
             daily_codes == Get(dly, "weather_code", <<>>)
         IN  RunRules(heat_alert(hourly_temps, hourly_times),
                      cold_alert(current_temp, hourly_temps, hourly_times),
                      storm_alert(hourly_winds, daily_codes, hourly_times),
                      uv_alert(hourly_uvs, hourly_times),
                      wind_alert(hourly_winds, hourly_times))

\* variant: the UV section placed before the storm section
generate_weather_alerts_uv_first(cur, hrly, dly) ==
    IF ~NonEmpty(cur) \/ ~NonEmpty(hrly) \/ ~NonEmpty(dly) THEN <<>>
    ELSE LET current_temp == Get(cur, "temperature", Num(20))
             hourly_temps == Get(hrly, "temperature_2m", <<>>)
             hourly_winds == Get(hrly, "wind_gusts_10m", <<>>)
             hourly_uvs == Get(hrly, "uv_index", <<>>)
             hourly_times == Get(hrly, "time", <<>>)
             daily_codes == Get(dly, "weather_code", <<>>)
         IN  RunRules(heat_alert(hourly_temps, hourly_times),
                      cold_alert(current_temp, hourly_temps, hourly_times),
                      uv_alert(hourly_uvs, hourly_times),
                      storm_alert(hourly_winds, daily_codes, hourly_times),
                      wind_alert(hourly_winds, hourly_times))

generate_weather_alerts(cur, hrly, dly) ==
    IF ~NonEmpty(cur) \/ ~NonEmpty(hrly) \/ ~NonEmpty(dly) THEN <<>>
    ELSE LET current_temp == Get(cur, "temperature", Num(20))
             hourly_temps == Get(hrly, "temperature_2m", <<>>)
             hourly_winds == Get(hrly, "wind_gusts_10m", <<>>)
             hourly_uvs == Get(hrly, "uv_index", <<>>)
             hourly_times == Get(hrly, "time", <<>>)
             daily_codes == Get(dly, "weather_code", <<>>)
         IN  RunRules(heat_alert(hourly_temps, hourly_times),
                      cold_alert(current_temp, hourly_temps, hourly_times),
                      storm_alert(hourly_winds, daily_codes, hourly_times),
                      uv_alert(hourly_uvs, hourly_times),
                      wind_alert(hourly_winds, hourly_times))

----------------------------------------------------------------------------
(* interpret_weather_code: the fixed WMO table *)

WeatherCodes == {0, 1, 2, 3, 45, 48, 51, 53, 55, 61, 63, 65, 71, 73, 75, 77,
                 80, 81, 82, 85, 86, 95, 96, 99}

CodeCategory(code) ==
    CASE code \in {0, 1} -> "Clear"
      [] code \in {2, 3} -> "Cloudy"
      [] code \in {45, 48} -> "Fog"
      [] code \in {51, 53, 55} -> "Drizzle"
      [] code \in {61, 63, 65, 80, 81, 82} -> "Rain"
      [] code \in {71, 73, 75, 77, 85, 86} -> "Snow"
      [] code \in {95, 96, 99} -> "Thunderstorm"

CodeSeverity(code) ==
    CASE code \in {0, 1} -> "none"
      [] code \in {2, 3, 51, 53, 61, 71, 80, 85} -> "low"
      [] code \in {45, 48, 55, 63, 73, 77, 81} -> "medium"
      [] code \in {65, 75, 82, 86, 95, 96} -> "high"
      [] code \in {99} -> "extreme"

CodeDescription(code) ==
    CASE code = 0 -> "Clear sky"
      [] code = 1 -> "Mainly clear"
      [] code = 2 -> "Partly cloudy"
      [] code = 3 -> "Overcast"
      [] code = 45 -> "Fog"
      [] code = 48 -> "Depositing rime fog"
      [] code = 51 -> "Light drizzle"
      [] code = 53 -> "Moderate drizzle"
      [] code = 55 -> "Dense drizzle"
      [] code = 61 -> "Slight rain"
      [] code = 63 -> "Moderate rain"
      [] code = 65 -> "Heavy rain"
      [] code = 71 -> "Slight snow"
      [] code = 73 -> "Moderate snow"
      [] code = 75 -> "Heavy snow"
      [] code = 77 -> "Snow grains"
      [] code = 80 -> "Slight rain showers"
      [] code = 81 -> "Moderate rain showers"
      [] code = 82 -> "Violent rain showers"
      [] code = 85 -> "Slight snow showers"
      [] code = 86 -> "Heavy snow showers"
      [] code = 95 -> "Thunderstorm"
      [] code = 96 -> "Thunderstorm with slight hail"
      [] code = 99 -> "Thunderstorm with heavy hail"

\* a description: a fixed text, followed by the formatted code when it names one
Described(text) == [text |-> text, names |-> PyNone]

\* f"Unknown weather code: {code}"
UnknownDescription(code) == [text |-> "Unknown weather code: ", names |-> code]

\* variant: a code that is not a key of the table read as the nearest key below
interpret_weather_code_nearest(code) ==
    IF IsNum(code) /\ code.v >= 0
    THEN LET k == SetMax({x \in WeatherCodes : x <= code.v}) IN
         [description |-> Described(CodeDescription(k)),
          category |-> CodeCategory(k), severity |-> CodeSeverity(k)]
    ELSE [description |-> UnknownDescription(code),
          category |-> "Unknown", severity |-> "unknown"]

\* weather_codes.get(code, unknown): any value that is not a key of the table,
\* None or a string included, gives the Unknown entry
interpret_weather_code(code) ==
    IF IsNum(code) /\ code.v \in WeatherCodes
    THEN [description |-> Described(CodeDescription(code.v)),
          category |-> CodeCategory(code.v), severity |-> CodeSeverity(code.v)]
    ELSE [description |-> UnknownDescription(code),
          category |-> "Unknown", severity |-> "unknown"]

\* the severity-to-impact table of get_travel_impact; .get(severity, "unknown")
impact_map(severity) ==
    CASE severity = "none" -> "none"
      [] severity = "low" -> "minor"
      [] severity = "medium" -> "moderate"
      [] severity = "high" -> "significant"
      [] severity = "extreme" -> "severe"
      [] OTHER -> "unknown"

\* variant: the impact one step above the table's
get_travel_impact_one_up(code) ==
    LET severity == interpret_weather_code(code).severity IN
    CASE severity = "none" -> "minor"
      [] severity = "low" -> "moderate"
      [] severity = "medium" -> "significant"
      [] severity = "high" -> "severe"
      [] severity = "extreme" -> "severe"
      [] OTHER -> "unknown"

get_travel_impact(code) == impact_map(interpret_weather_code(code).severity)

----------------------------------------------------------------------------
(* assess_ski_conditions.  snow_depth is in tenths of a metre (x10), so the *)
(* thresholds 0.5 and 0.2 are 5 and 2; snowfall and temperature are whole   *)
(* numbers.  A comparison yields "T", "F" or "raise" (TypeError on a value  *)
(* that is not a number).                                                   *)

Gt(x, n) == IF ~IsNum(x) THEN "raise" ELSE IF x.v > n THEN "T" ELSE "F"
Lt(x, n) == IF ~IsNum(x) THEN "raise" ELSE IF x.v < n THEN "T" ELSE "F"

\* lo <= x <= hi
Between(lo, x, hi) ==
    IF ~IsNum(x) THEN "raise" ELSE IF lo <= x.v /\ x.v <= hi THEN "T" ELSE "F"

\* x in [...]: equality with any value, never raises
InList(x, S) == IF IsNum(x) /\ x.v \in S THEN "T" ELSE "F"

\* a and b and c, evaluated left to right, stopping at the first that is not true
And3(a, b, c) == IF a # "T" THEN a ELSE IF b # "T" THEN b ELSE c
And2(a, b) == IF a # "T" THEN a ELSE b

\* variant: the Good rule tried before the Excellent rule
assess_ski_conditions_good_first(snow, wthr) ==
    LET snow_depth == Get(snow, "snow_depth", Num(0))
        recent_snowfall == Get(snow, "recent_snowfall", Num(0))
        temperature == Get(wthr, "temperature", Num(0))
        weather_code == Get(wthr, "weather_code", Num(0))
        excellent == And3(Gt(recent_snowfall, 10), Between(-15, temperature, -5),
                          InList(weather_code, {0, 1, 2}))
        good == And3(Gt(snow_depth, 5), Between(-10, temperature, 0),
                     InList(weather_code, {0, 1, 2, 3}))
        fair == And2(Gt(snow_depth, 2), Lt(temperature, 5))
    IN  IF good = "raise" THEN "raised"
        ELSE IF good = "T" THEN "Good"
        ELSE IF excellent = "raise" THEN "raised"
        ELSE IF excellent = "T" THEN "Excellent"
        ELSE IF fair = "raise" THEN "raised"
        ELSE IF fair = "T" THEN "Fair"
        ELSE "Poor"

assess_ski_conditions(snow, wthr) ==
    LET snow_depth == Get(snow, "snow_depth", Num(0))
        recent_snowfall == Get(snow, "recent_snowfall", Num(0))
        temperature == Get(wthr, "temperature", Num(0))
        weather_code == Get(wthr, "weather_code", Num(0))
        excellent == And3(Gt(recent_snowfall, 10), Between(-15, temperature, -5),
                          InList(weather_code, {0, 1, 2}))
        good == And3(Gt(snow_depth, 5), Between(-10, temperature, 0),
                     InList(weather_code, {0, 1, 2, 3}))
        fair == And2(Gt(snow_depth, 2), Lt(temperature, 5))
    IN  IF excellent = "raise" THEN "raised"
        ELSE IF excellent = "T" THEN "Excellent"
        ELSE IF good = "raise" THEN "raised"
        ELSE IF good = "T" THEN "Good"
        ELSE IF fair = "raise" THEN "raised"
        ELSE IF fair = "T" THEN "Fair"
        ELSE "Poor"

----------------------------------------------------------------------------
(* calculate_comfort_index.  Scores are kept in tenths (x10), the weighted *)
(* sum in thousandths (x1000); temperatures, humidity, wind, UV, AQI and   *)
(* precipitation probability are whole numbers.                            *)

\* an optional dict argument: None or a dict
NoneArg == [present |-> FALSE, d |-> EmptyDict]
DictArg(d) == [present |-> TRUE, d |-> d]

\* the formula of calculate_wind_chill evaluated and rounded to one decimal,
\* in tenths, for the temperatures and winds (>= 4.8) used below
WindChillFormula ==
    (<<-20, 10>> :> -272) @@ (<<-20, 40>> :> -341)
    @@ (<<4, 10>> :> 15) @@ (<<4, 40>> :> -20)

\* calculate_wind_chill(temp, wind) in tenths
calculate_wind_chill(temp, wind) ==
    IF wind * 10 < 48 THEN temp * 10 ELSE WindChillFormula[<<temp, wind>>]

\* round(x, 1) of a value given in thousandths, result in tenths.  On a
\* decimal tie the float that holds x lies just below or just above it, so
\* round() goes either way: ties_up tells which.
Round1(x, ties_up) ==
    LET q == x \div 100
        r == x % 100
    IN  IF r < 50 THEN q
        ELSE IF r > 50 THEN q + 1
        ELSE IF ties_up THEN q + 1 ELSE q

Abs(x) == IF x < 0 THEN -x ELSE x

Fallback ==
    [overall |-> 500,
     factors |-> [thermal_comfort |-> 500, air_quality |-> 500,
                  precipitation_risk |-> 500, uv_safety |-> 500,
                  weather_condition |-> 500],
     recommendation |-> "Unable to calculate comfort index"]

severity_map(severity) ==
    CASE severity = "none" -> 100
      [] severity = "low" -> 85
      [] severity = "medium" -> 70
      [] severity = "high" -> 40
      [] severity = "extreme" -> 10
      [] OTHER -> 50

Recommendation(overall) ==
    IF overall >= 80000 THEN "Perfect for outdoor activities"
    ELSE IF overall >= 60000 THEN "Good conditions for outdoor activities"
    ELSE IF overall >= 40000 THEN "Fair conditions; plan accordingly"
    ELSE IF overall >= 20000 THEN "Poor conditions; seek indoor alternatives"
    ELSE "Very poor conditions; avoid outdoor activities"

\* thermal comfort in tenths; raised when an operand is not a number
Thermal(temp, humidity, wind) ==
    IF ~IsNum(temp) THEN [raised |-> TRUE, val |-> 0]
    ELSE IF temp.v > 25
    THEN IF ~IsNum(humidity) THEN [raised |-> TRUE, val |-> 0]
         ELSE [raised |-> FALSE,
               val |-> 1000 - Min(400, (temp.v - 25) * 20 + (humidity.v - 40) * 5)]
    ELSE IF temp.v < 5
    THEN IF ~IsNum(wind) THEN [raised |-> TRUE, val |-> 0]
         ELSE [raised |-> FALSE,
               val |-> Max(0, 1000 - Min(500,
                          (50 - calculate_wind_chill(temp.v, wind.v)) * 3))]
    ELSE [raised |-> FALSE, val |-> 1000 - Abs(temp.v - 20) * 20]

\* the body of the try block once the six weather metrics are extracted
comfort_of(temp, humidity, wind, uv, precip_prob, weather_code, aq, ties_up) ==
    LET thermal == Thermal(temp, humidity, wind)
        aqi == IF aq.present /\ NonEmpty(aq.d)
               THEN Get(aq.d, "european_aqi", Num(50))
               ELSE Num(50)
    IN  IF thermal.raised \/ ~IsNum(aqi) \/ ~IsNum(precip_prob) \/ ~IsNum(uv)
        THEN Fallback
        ELSE
        LET air_quality_factor == Max(0, 1000 - aqi.v * 10)
            precip_factor == 1000 - precip_prob.v * 10
            uv_factor == Max(0, 1000 - uv.v * 120)
            weather_factor ==
                10 * severity_map(interpret_weather_code(weather_code).severity)
            overall == thermal.val * 25 + air_quality_factor * 15
                       + precip_factor * 20 + uv_factor * 15
                       + weather_factor * 25
        IN  [overall |-> Round1(overall, ties_up),
             factors |-> [thermal_comfort |-> thermal.val,
                          air_quality |-> air_quality_factor,
                          precipitation_risk |-> precip_factor,
                          uv_safety |-> uv_factor,
                          weather_condition |-> weather_factor],
             recommendation |-> Recommendation(overall)]

WeatherKeys == {"temperature", "relative_humidity_2m", "wind_speed_10m",
                "uv_index", "precipitation_probability", "weather_code"}

\* variant: the metrics read with weather[key], so that a missing key raises
calculate_comfort_index_strict(w, aq, ties_up) ==
    IF ~w.present THEN Fallback
    ELSE IF ~(WeatherKeys \subseteq DOMAIN w.d) THEN Fallback
    ELSE comfort_of(w.d["temperature"], w.d["relative_humidity_2m"],
                    w.d["wind_speed_10m"], w.d["uv_index"],
                    w.d["precipitation_probability"], w.d["weather_code"],
                    aq, ties_up)

\* variant: a None weather argument read as an empty dict
calculate_comfort_index_none_as_empty(w, aq, ties_up) ==
    comfort_of(Get(w.d, "temperature", Num(15)),
               Get(w.d, "relative_humidity_2m", Num(50)),
               Get(w.d, "wind_speed_10m", Num(10)),
               Get(w.d, "uv_index", Num(3)),
               Get(w.d, "precipitation_probability", Num(0)),
               Get(w.d, "weather_code", Num(0)),
               aq, ties_up)

calculate_comfort_index(w, aq, ties_up) ==
    IF ~w.present THEN Fallback                   \* None.get raises
    ELSE comfort_of(Get(w.d, "temperature", Num(15)),
                    Get(w.d, "relative_humidity_2m", Num(50)),
                    Get(w.d, "wind_speed_10m", Num(10)),
                    Get(w.d, "uv_index", Num(3)),
                    Get(w.d, "precipitation_probability", Num(0)),
                    Get(w.d, "weather_code", Num(0)),
                    aq, ties_up)

----------------------------------------------------------------------------
(* calculate_astronomy_data.  Times are seconds after 00:00 of the current  *)
(* day, localized to a timezone; the hour angle comes from two tables that  *)
(* hold the trigonometric formulas of the source evaluated on the inputs.   *)

\* -tan(lat) * tan(declination) in millionths, by the formulas of lines 634-661,
\* for <<latitude, longitude, day of year>> at 12 o'clock
SunCosH ==
    (<<-70, -120, 1>> :> -1161743) @@ (<<-70, -120, 80>> :> 28965) @@ (<<-70, -120, 172>> :> 1191060) @@
    (<<-70, -120, 265>> :> -2288) @@ (<<-70, -120, 355>> :> -1191160) @@ (<<-70, 0, 1>> :> -1163407) @@
    (<<-70, 0, 80>> :> 22655) @@ (<<-70, 0, 172>> :> 1191140) @@ (<<-70, 0, 265>> :> 3935) @@
    (<<-70, 0, 355>> :> -1191177) @@ (<<-70, 8, 1>> :> -1163517) @@ (<<-70, 8, 80>> :> 22234) @@
    (<<-70, 8, 172>> :> 1191143) @@ (<<-70, 8, 265>> :> 4350) @@ (<<-70, 8, 355>> :> -1191176) @@
    (<<-70, 150, 1>> :> -1165422) @@ (<<-70, 150, 80>> :> 14765) @@ (<<-70, 150, 172>> :> 1191178) @@
    (<<-70, 150, 265>> :> 11712) @@ (<<-70, 150, 355>> :> -1191128) @@ (<<-45, -120, 1>> :> -422840) @@
    (<<-45, -120, 80>> :> 10543) @@ (<<-45, -120, 172>> :> 433511) @@ (<<-45, -120, 265>> :> -833) @@
    (<<-45, -120, 355>> :> -433547) @@ (<<-45, 0, 1>> :> -423446) @@ (<<-45, 0, 80>> :> 8246) @@
    (<<-45, 0, 172>> :> 433539) @@ (<<-45, 0, 265>> :> 1432) @@ (<<-45, 0, 355>> :> -433553) @@
    (<<-45, 8, 1>> :> -423485) @@ (<<-45, 8, 80>> :> 8093) @@ (<<-45, 8, 172>> :> 433541) @@
    (<<-45, 8, 265>> :> 1583) @@ (<<-45, 8, 355>> :> -433553) @@ (<<-45, 150, 1>> :> -424179) @@
    (<<-45, 150, 80>> :> 5374) @@ (<<-45, 150, 172>> :> 433553) @@ (<<-45, 150, 265>> :> 4263) @@
    (<<-45, 150, 355>> :> -433535) @@ (<<0, -120, 1>> :> 0) @@ (<<0, -120, 80>> :> 0) @@
    (<<0, -120, 172>> :> 0) @@ (<<0, -120, 265>> :> 0) @@ (<<0, -120, 355>> :> 0) @@
    (<<0, 0, 1>> :> 0) @@ (<<0, 0, 80>> :> 0) @@ (<<0, 0, 172>> :> 0) @@
    (<<0, 0, 265>> :> 0) @@ (<<0, 0, 355>> :> 0) @@ (<<0, 8, 1>> :> 0) @@
    (<<0, 8, 80>> :> 0) @@ (<<0, 8, 172>> :> 0) @@ (<<0, 8, 265>> :> 0) @@
    (<<0, 8, 355>> :> 0) @@ (<<0, 150, 1>> :> 0) @@ (<<0, 150, 80>> :> 0) @@
    (<<0, 150, 172>> :> 0) @@ (<<0, 150, 265>> :> 0) @@ (<<0, 150, 355>> :> 0) @@
    (<<47, -120, 1>> :> 453440) @@ (<<47, -120, 80>> :> -11305) @@ (<<47, -120, 172>> :> -464883) @@
    (<<47, -120, 265>> :> 893) @@ (<<47, -120, 355>> :> 464922) @@ (<<47, 0, 1>> :> 454090) @@
    (<<47, 0, 80>> :> -8843) @@ (<<47, 0, 172>> :> -464914) @@ (<<47, 0, 265>> :> -1536) @@
    (<<47, 0, 355>> :> 464929) @@ (<<47, 8, 1>> :> 454133) @@ (<<47, 8, 80>> :> -8678) @@
    (<<47, 8, 172>> :> -464916) @@ (<<47, 8, 265>> :> -1698) @@ (<<47, 8, 355>> :> 464928) @@
    (<<47, 150, 1>> :> 454876) @@ (<<47, 150, 80>> :> -5763) @@ (<<47, 150, 172>> :> -464929) @@
    (<<47, 150, 265>> :> -4571) @@ (<<47, 150, 355>> :> 464910) @@ (<<70, -120, 1>> :> 1161743) @@
    (<<70, -120, 80>> :> -28965) @@ (<<70, -120, 172>> :> -1191060) @@ (<<70, -120, 265>> :> 2288) @@
    (<<70, -120, 355>> :> 1191160) @@ (<<70, 0, 1>> :> 1163407) @@ (<<70, 0, 80>> :> -22655) @@
    (<<70, 0, 172>> :> -1191140) @@ (<<70, 0, 265>> :> -3935) @@ (<<70, 0, 355>> :> 1191177) @@
    (<<70, 8, 1>> :> 1163517) @@ (<<70, 8, 80>> :> -22234) @@ (<<70, 8, 172>> :> -1191143) @@
    (<<70, 8, 265>> :> -4350) @@ (<<70, 8, 355>> :> 1191176) @@ (<<70, 150, 1>> :> 1165422) @@
    (<<70, 150, 80>> :> -14765) @@ (<<70, 150, 172>> :> -1191178) @@ (<<70, 150, 265>> :> -11712) @@
    (<<70, 150, 355>> :> 1191128) @@ (<<89, -120, 1>> :> 24224476) @@ (<<89, -120, 80>> :> -603980) @@
    (<<89, -120, 172>> :> -24835801) @@ (<<89, -120, 265>> :> 47710) @@ (<<89, -120, 355>> :> 24837887) @@
    (<<89, 0, 1>> :> 24259184) @@ (<<89, 0, 80>> :> -472401) @@ (<<89, 0, 172>> :> -24837456) @@
    (<<89, 0, 265>> :> -82051) @@ (<<89, 0, 355>> :> 24838235) @@ (<<89, 8, 1>> :> 24261463) @@
    (<<89, 8, 80>> :> -463628) @@ (<<89, 8, 172>> :> -24837534) @@ (<<89, 8, 265>> :> -90700) @@
    (<<89, 8, 355>> :> 24838221) @@ (<<89, 150, 1>> :> 24301185) @@ (<<89, 150, 80>> :> -307880) @@
    (<<89, 150, 172>> :> -24838246) @@ (<<89, 150, 265>> :> -244215) @@ (<<89, 150, 355>> :> 24837212)

\* degrees(acos(c)) / 15 hours in seconds, c in millionths
ArcCosSeconds ==
    (-1000000 :> 43200) @@ (-603980 :> 30517) @@ (-472401 :> 28366) @@ (-464929 :> 28249) @@
    (-464916 :> 28249) @@ (-464914 :> 28249) @@ (-464883 :> 28249) @@ (-463628 :> 28229) @@
    (-433553 :> 27766) @@ (-433547 :> 27766) @@ (-433535 :> 27766) @@ (-424179 :> 27624) @@
    (-423485 :> 27613) @@ (-423446 :> 27613) @@ (-422840 :> 27603) @@ (-307880 :> 25904) @@
    (-244215 :> 24993) @@ (-90700 :> 22849) @@ (-82051 :> 22730) @@ (-28965 :> 21998) @@
    (-22655 :> 21912) @@ (-22234 :> 21906) @@ (-14765 :> 21803) @@ (-11712 :> 21761) @@
    (-11305 :> 21755) @@ (-8843 :> 21722) @@ (-8678 :> 21719) @@ (-5763 :> 21679) @@
    (-4571 :> 21663) @@ (-4350 :> 21660) @@ (-3935 :> 21654) @@ (-2288 :> 21631) @@
    (-1698 :> 21623) @@ (-1536 :> 21621) @@ (-833 :> 21611) @@ (0 :> 21600) @@
    (893 :> 21588) @@ (1432 :> 21580) @@ (1583 :> 21578) @@ (2288 :> 21569) @@
    (3935 :> 21546) @@ (4263 :> 21541) @@ (4350 :> 21540) @@ (5374 :> 21526) @@
    (8093 :> 21489) @@ (8246 :> 21487) @@ (10543 :> 21455) @@ (11712 :> 21439) @@
    (14765 :> 21397) @@ (22234 :> 21294) @@ (22655 :> 21288) @@ (28965 :> 21202) @@
    (47710 :> 20944) @@ (433511 :> 15434) @@ (433539 :> 15434) @@ (433541 :> 15434) @@
    (433553 :> 15434) @@ (453440 :> 15128) @@ (454090 :> 15118) @@ (454133 :> 15118) @@
    (454876 :> 15106) @@ (464910 :> 14951) @@ (464922 :> 14951) @@ (464928 :> 14951) @@
    (464929 :> 14951) @@ (1000000 :> 0)

MaxCos == 1000000

\* max(-1, min(1, cos_h))
Clamp(cos_h) == Max(-MaxCos, Min(MaxCos, cos_h))

\* timezone names pytz knows, among those used
KnownTimezones == {"UTC", "Europe/Zurich"}

\* pytz.timezone(name): UnknownTimeZoneError for a name it does not know
pytz_timezone(name) ==
    IF name \in KnownTimezones THEN [raised |-> FALSE, tz |-> name]
    ELSE [raised |-> TRUE, tz |-> "UTC"]

\* tz.localize(datetime.combine(today, time(0)) + timedelta(seconds))
Localized(seconds, tz) == [t |-> "datetime", v |-> seconds, tz |-> tz]

\* {"sunrise": None, "sunset": None, "error": str(e)}
AstronomyError(message) ==
    [sunrise |-> PyNone, sunset |-> PyNone, error |-> message]

\* round(seconds / 3600, 1) in tenths of an hour
DayLength(seconds) == (seconds * 10 + 1800) \div 3600

\* the record built from the hour angle h (seconds), for longitude lon and zone tz
astronomy_record(h, lon, tz) ==
    LET utc_offset == lon * 240
        sunrise_utc == 43200 - h - utc_offset
        sunset_utc == 43200 + h - utc_offset
        golden_hour_start == Localized(sunrise_utc + 1800, tz)
        golden_hour_end == Localized(sunset_utc - 1800, tz)
        blue_hour_start == Localized(sunset_utc, tz)
        blue_hour_end == Localized(sunset_utc + 2400, tz)
    IN  [sunrise |-> Localized(sunrise_utc, tz),
         sunset |-> Localized(sunset_utc, tz),
         day_length_hours |-> DayLength(sunset_utc - sunrise_utc),
         golden_hour |-> [start |-> golden_hour_start, end |-> golden_hour_end,
                          duration_minutes |-> 30],
         blue_hour |-> [start |-> blue_hour_start, end |-> blue_hour_end,
                        duration_minutes |-> 40],
         moon_phase |-> "waxing gibbous",
         best_photography_windows |->
             <<[type |-> "golden_hour", start |-> golden_hour_start,
                end |-> golden_hour_end],
               [type |-> "blue_hour", start |-> blue_hour_start,
                end |-> blue_hour_end]>>]

\* variant: an unknown timezone name is not caught where the zone is looked up
calculate_astronomy_data_unknown_zone_fails(lat, lon, zone, clock) ==
    IF ~IsNum(lat) \/ ~IsNum(lon) THEN AstronomyError("TypeError")
    ELSE IF pytz_timezone(zone).raised THEN AstronomyError("UnknownTimeZoneError")
    ELSE astronomy_record(
             ArcCosSeconds[Clamp(SunCosH[<<lat.v, lon.v, clock.yday>>])],
             lon.v, pytz_timezone(zone).tz)

\* variant: the arc cosine taken of the unclamped value
calculate_astronomy_data_unclamped(lat, lon, zone, clock) ==
    IF ~IsNum(lat) \/ ~IsNum(lon) THEN AstronomyError("TypeError")
    ELSE LET tz == IF pytz_timezone(zone).raised THEN "UTC"
                   ELSE pytz_timezone(zone).tz
             cos_h == SunCosH[<<lat.v, lon.v, clock.yday>>]
         IN  IF cos_h < -MaxCos \/ cos_h > MaxCos
             THEN AstronomyError("math domain error")
             ELSE astronomy_record(ArcCosSeconds[cos_h], lon.v, tz)

calculate_astronomy_data(lat, lon, zone, clock) ==
    IF ~IsNum(lat) \/ ~IsNum(lon)
    THEN AstronomyError("TypeError")              \* math.radians(None)
    ELSE LET tz == IF pytz_timezone(zone).raised THEN "UTC"
                   ELSE pytz_timezone(zone).tz
             cos_h == Clamp(SunCosH[<<lat.v, lon.v, clock.yday>>])
         IN  astronomy_record(ArcCosSeconds[cos_h], lon.v, tz)

----------------------------------------------------------------------------
(* OpenMeteoClient.search_location.  A string is a record with its text; a  *)
(* fetched result is a dict with its "id", its "name" and, when the service *)
(* sent one, its "country_code" (a string or null).                         *)

Str(text) == [t |-> "str", s |-> text]
NoneStr == [t |-> "none", s |-> ""]

\* str.upper() on the country codes used
Upper(text) ==
    CASE text \in {"ch", "Ch", "CH"} -> "CH"
      [] text \in {"pk", "PK"} -> "PK"
      [] text \in {"de", "DE"} -> "DE"
      [] OTHER -> text

SearchRaised == [raised |-> TRUE, results |-> <<>>]

\* [r for r in results if keep(r)], in order
RECURSIVE SelectResults(_, _)
SelectResults(results, keep) ==
    IF results = <<>> THEN <<>>
    ELSE (IF Head(results) \in keep THEN <<Head(results)>> ELSE <<>>)
         \o SelectResults(Tail(results), keep)

\* variant: the filtered list returned even when it is empty
search_location_strict(ctry, service) ==
    IF service.status = "error" THEN SearchRaised
    ELSE LET results == service.results IN
         IF ctry.t = "str" /\ ctry.s # "" /\ results # <<>>
         THEN IF \E i \in 1..Len(results) :
                    Get(results[i], "country_code", Str("")).t = "none"
              THEN SearchRaised
              ELSE [raised |-> FALSE,
                    results |-> SelectResults(results,
                        {r \in {results[i] : i \in 1..Len(results)} :
                            Upper(Get(r, "country_code", Str("")).s) = Upper(ctry.s)})]
         ELSE [raised |-> FALSE, results |-> results]

search_location(ctry, service) ==
    IF service.status = "error" THEN SearchRaised         \* httpx.HTTPError
    ELSE LET results == service.results IN
         IF ctry.t = "str" /\ ctry.s # "" /\ results # <<>>
         THEN IF \E i \in 1..Len(results) :
                    Get(results[i], "country_code", Str("")).t = "none"
              THEN SearchRaised                            \* None.upper()
              ELSE LET filtered_results ==
                           SelectResults(results,
                               {r \in {results[i] : i \in 1..Len(results)} :
                                   Upper(Get(r, "country_code", Str("")).s) = Upper(ctry.s)})
                   IN  [raised |-> FALSE,
                        results |-> IF filtered_results # <<>>
                                    THEN filtered_results ELSE results]
         ELSE [raised |-> FALSE, results |-> results]

----------------------------------------------------------------------------
(* server.get_weather_alerts, the registered alert tool: alerts derived    *)
(* from the current snapshot.  Pydantic objects are records with a         *)
(* `present` flag (FALSE is None); their numeric fields are validated      *)
(* numbers, here whole numbers.  The apparent temperature is in tenths.    *)

Absent == [present |-> FALSE]

\* keyword parameters accepted by OpenMeteoClient.get_air_quality
AirQualityParameters ==
    {"latitude", "longitude", "forecast_days", "include_pollen", "timezone"}

\* OpenMeteoClient.get_air_quality called with keyword arguments kwargs: an
\* unknown keyword raises TypeError, a failed request raises, otherwise the
\* forecast held by the service is returned
client_get_air_quality(kwargs, service) ==
    IF ~(kwargs \subseteq AirQualityParameters) THEN [raised |-> TRUE, value |-> Absent]
    ELSE IF service.status = "error" THEN [raised |-> TRUE, value |-> Absent]
    ELSE [raised |-> FALSE, value |-> [present |-> TRUE, current |-> service.current]]

\* the keywords the tool passes to get_air_quality
AirQualityCall == {"latitude", "longitude", "forecast_days", "include_hourly"}

Today(h) == [src |-> "today", v |-> h]

\* temperature alerts
snapshot_temperature_alerts(cw) ==
    IF ~cw.present THEN <<>>
    ELSE IF cw.temperature > 30
    THEN <<Alert("heat",
                 IF cw.temperature > 35 THEN "warning"
                 ELSE IF cw.temperature > 32 THEN "watch" ELSE "advisory",
                 FromNow(0), FromNow(6))>>
    ELSE IF cw.temperature < -5
    THEN LET apparent_temp == cw.temperature * 10 - cw.windspeed * 6 IN
         <<Alert("cold",
                 IF apparent_temp < -150 THEN "warning"
                 ELSE IF apparent_temp < -100 THEN "watch" ELSE "advisory",
                 FromNow(0), FromNow(6))>>
    ELSE <<>>

\* wind alerts
snapshot_wind_alerts(cw) ==
    IF cw.present /\ cw.windspeed > 60
    THEN <<Alert("wind", IF cw.windspeed > 80 THEN "warning" ELSE "watch",
                 FromNow(0), FromNow(6))>>
    ELSE <<>>

\* weather code alerts
snapshot_storm_alerts(cw) ==
    IF cw.present /\ cw.weathercode >= 95
    THEN <<Alert("storm", "warning", FromNow(0), FromNow(3))>>
    ELSE <<>>

\* variant: the UV maximum taken over every day of the forecast
snapshot_uv_alerts_all_days(dly) ==
    IF ~dly.present THEN Ok(<<>>)
    ELSE IF ~dly.uv_index_max.present THEN Raised
    ELSE IF dly.uv_index_max.list = <<>> THEN Raised
    ELSE LET l == dly.uv_index_max.list
             max_uv == SetMax({l[i] : i \in 1..Len(l)}) IN
         IF max_uv > 8
         THEN Ok(<<Alert("uv", IF max_uv > 10 THEN "warning" ELSE "watch",
                         Today(10), Today(16))>>)
         ELSE Ok(<<>>)

\* UV alerts from daily data; max() of None[:1] or of an empty list raises
snapshot_uv_alerts(dly) ==
    IF ~dly.present THEN Ok(<<>>)
    ELSE IF ~dly.uv_index_max.present THEN Raised          \* TypeError
    ELSE IF dly.uv_index_max.list = <<>> THEN Raised       \* ValueError
    ELSE LET max_uv == dly.uv_index_max.list[1] IN
         IF max_uv > 8
         THEN Ok(<<Alert("uv", IF max_uv > 10 THEN "warning" ELSE "watch",
                         Today(10), Today(16))>>)
         ELSE Ok(<<>>)

\* getattr(air_quality.current, "european_aqi", None)
snapshot_aqi(aq) ==
    IF aq.present /\ aq.current.present THEN aq.current.european_aqi ELSE PyNone

\* air quality alerts
snapshot_air_quality_alerts(aq) ==
    LET aqi == snapshot_aqi(aq) IN
    IF aq.present /\ Truthy(aqi) /\ aqi.v > 80
    THEN <<Alert("air_quality", IF aqi.v > 120 THEN "warning" ELSE "watch",
                 FromNow(0), FromNow(12))>>
    ELSE <<>>

\* precipitation alerts: the first hour below hours_to_check above 10 mm
snapshot_precipitation_alerts(hrly, hours) ==
    IF ~hrly.present THEN <<>>
    ELSE LET hours_to_check == Min(hours, Len(hrly.time))
             heavy == {i \in 0 .. (hours_to_check - 1) :
                          i < Len(hrly.precipitation)
                          /\ At(hrly.precipitation, i) > 10}
         IN  IF heavy = {} THEN <<>>
             ELSE LET i == SetMin(heavy) IN
                  <<Alert("precipitation",
                          IF At(hrly.precipitation, i) > 20 THEN "warning"
                          ELSE "watch",
                          FromNow(i), FromNow(i + 1))>>

\* variant: 1 when some alert has the value, whatever their number
CountBy_presence(as, field, value) ==
    IF \E i \in 1..Len(as) : as[i][field] = value THEN 1 ELSE 0

CountBy(as, field, value) ==
    Cardinality({i \in 1..Len(as) : as[i][field] = value})

AlertTypes == {"storm", "heat", "cold", "uv", "wind", "air_quality", "precipitation"}
Severities == {"warning", "watch", "advisory"}

RaisedResponse ==
    [raised |-> TRUE, alerts |-> <<>>,
     summary |-> [total_alerts |-> 0,
                  by_type |-> [ty \in AlertTypes |-> 0],
                  by_severity |-> [sv \in Severities |-> 0]],
     conditions |-> [current |-> Absent, air_quality_aqi |-> Absent],
     recommendations |-> <<>>]

priority_recommendations(as) ==
    (IF CountBy(as, "severity", "warning") > 0
     THEN <<"WARNING conditions present - review all active alerts">> ELSE <<>>)
    \o (IF CountBy(as, "severity", "watch") > 0
        THEN <<"WATCH conditions developing - monitor forecast updates">> ELSE <<>>)
    \o (IF as = <<>>
        THEN <<"No weather alerts - conditions are within normal ranges">> ELSE <<>>)

\* current conditions summary: the current snapshot when there is one, and the
\* AQI entry when the air-quality fetch returned
snapshot_conditions(cw, aq) ==
    [current |-> cw,
     air_quality_aqi |-> IF aq.present
                         THEN [present |-> TRUE, value |-> snapshot_aqi(aq)]
                         ELSE Absent]

get_weather_alerts(fc, service, hours) ==
    LET fetched == client_get_air_quality(AirQualityCall, service)
        aq == IF fetched.raised THEN Absent ELSE fetched.value   \* bare except
        uv == snapshot_uv_alerts(fc.daily)
    IN  IF uv.raised THEN RaisedResponse
        ELSE LET as == snapshot_temperature_alerts(fc.current_weather)
                       \o snapshot_wind_alerts(fc.current_weather)
                       \o snapshot_storm_alerts(fc.current_weather)
                       \o uv.out
                       \o snapshot_air_quality_alerts(aq)
                       \o snapshot_precipitation_alerts(fc.hourly, hours)
             IN  [raised |-> FALSE, alerts |-> as,
                  summary |-> [total_alerts |-> Len(as),
                               by_type |-> [ty \in AlertTypes |->
                                               CountBy(as, "type", ty)],
                               by_severity |-> [sv \in Severities |->
                                               CountBy(as, "severity", sv)]],
                  conditions |-> snapshot_conditions(fc.current_weather, aq),
                  recommendations |-> priority_recommendations(as)]

----------------------------------------------------------------------------
(* server.get_comfort_index, the registered comfort tool.                  *)

\* CurrentWeather.model_dump(): the dict of the model's own field names
CurrentWeatherDump(cw) ==
    [temperature |-> Num(cw.temperature),
     windspeed |-> Num(cw.windspeed),
     winddirection |-> Num(cw.winddirection),
     weathercode |-> Num(cw.weathercode),
     time |-> PyStr]

\* CurrentAirQuality.model_dump(): every field present, None when not sent
CurrentAirQualityDump(aq) ==
    [time |-> PyStr, european_aqi |-> aq.european_aqi, us_aqi |-> PyNone,
     pm10 |-> PyNone, pm2_5 |-> PyNone, uv_index |-> PyNone]

\* OpenMeteoClient.get_weather: a failed request raises, otherwise the
\* forecast held by the service is returned
client_get_weather(service) ==
    IF service.status = "error" THEN [raised |-> TRUE, value |-> Absent]
    ELSE [raised |-> FALSE,
          value |-> [present |-> TRUE, current_weather |-> service.current_weather]]

ComfortRaised == [raised |-> TRUE, comfort_index |-> Fallback]

get_comfort_index(weather_service, air_quality_service, ties_up) ==
    LET fetched_weather == client_get_weather(weather_service)
        fetched_air_quality ==
            client_get_air_quality(
                {"latitude", "longitude", "forecast_days", "include_pollen"},
                air_quality_service)
    IN  IF fetched_weather.raised \/ fetched_air_quality.raised
        THEN ComfortRaised
        ELSE LET wthr ==
                     IF fetched_weather.value.current_weather.present
                     THEN CurrentWeatherDump(fetched_weather.value.current_weather)
                     ELSE EmptyDict
                 current_aqi ==
                     IF fetched_air_quality.value.current.present
                     THEN CurrentAirQualityDump(fetched_air_quality.value.current)
                     ELSE EmptyDict
             IN  [raised |-> FALSE,
                  comfort_index |->
                      calculate_comfort_index(DictArg(wthr), DictArg(current_aqi),
                                              ties_up)]

----------------------------------------------------------------------------
(* server.compare_locations.  A location carries its name and the answers   *)
(* of the two services for its coordinates; a result entry is a dict.       *)

\* the entry of one location: the try block of the loop and its except
\* clause; the coordinates, copied from the location, are left out
compare_entry(loc, ties_up) ==
    LET fetched_weather == client_get_weather(loc.weather)
        fetched_air_quality ==
            client_get_air_quality(
                {"latitude", "longitude", "forecast_days", "include_pollen"},
                loc.air_quality)
    IN  IF fetched_weather.raised \/ fetched_air_quality.raised
        THEN [name |-> loc.name, error |-> PyStr]
        ELSE LET current_weather ==
                     IF fetched_weather.value.current_weather.present
                     THEN CurrentWeatherDump(fetched_weather.value.current_weather)
                     ELSE EmptyDict
                 current_aqi ==
                     IF fetched_air_quality.value.current.present
                     THEN CurrentAirQualityDump(fetched_air_quality.value.current)
                     ELSE EmptyDict
                 cmf == calculate_comfort_index(DictArg(current_weather),
                                                DictArg(current_aqi), ties_up)
             IN  [name |-> loc.name,
                  temperature |-> Get(current_weather, "temperature", Num(0)),
                  wind_speed |-> Get(current_weather, "windspeed", Num(0)),
                  weather_code |-> Get(current_weather, "weathercode", Num(0)),
                  comfort_index |-> Num(cmf.overall),
                  aqi |-> Get(current_aqi, "european_aqi", Num(0)),
                  recommendation |-> cmf.recommendation]

\* the key function of the sort chosen by criteria
sort_key(crit, x) ==
    CASE crit = "warmest" -> Get(x, "temperature", Num(0))
      [] crit = "driest" -> Get(x, "wind_speed", Num(999))
      [] crit = "sunniest" -> Get(x, "weather_code", Num(99))
      [] crit = "best_air_quality" -> Get(x, "aqi", Num(999))
      [] crit = "calmest" -> Get(x, "wind_speed", Num(999))
      [] OTHER -> Get(x, "comfort_index", Num(0))

\* reverse=True of the sort chosen by criteria
sort_reverse(crit) ==
    crit \notin {"driest", "sunniest", "best_air_quality", "calmest"}

\* list.sort is stable, with reverse=True as well: x goes behind every entry
\* that does not have to follow it
RECURSIVE InsertSorted(_, _, _)
InsertSorted(sorted, x, crit) ==
    IF sorted = <<>> THEN <<x>>
    ELSE LET stays == IF sort_reverse(crit)
                      THEN sort_key(crit, Head(sorted)).v >= sort_key(crit, x).v
                      ELSE sort_key(crit, Head(sorted)).v <= sort_key(crit, x).v
         IN  IF stays THEN <<Head(sorted)>> \o InsertSorted(Tail(sorted), x, crit)
             ELSE <<x>> \o sorted

RECURSIVE SortResults(_, _)
SortResults(results, crit) ==
    IF results = <<>> THEN <<>>
    ELSE InsertSorted(SortResults(SubSeq(results, 1, Len(results) - 1), crit),
                      results[Len(results)], crit)

CompareRaised == [raised |-> TRUE, criteria |-> "", locations |-> <<>>,
                  winner |-> PyNone]

\* ties_up[i] is the rounding of the i-th location's comfort index.  The
\* comparison of a None key with another key raises TypeError, which nothing
\* catches; the returned comparison_timestamp is left out.
compare_locations(locs, crit, ties_up) ==
    LET results == [i \in 1..Len(locs) |-> compare_entry(locs[i], ties_up[i])]
    IN  IF /\ Len(results) >= 2
           /\ \E i \in 1..Len(results) : ~IsNum(sort_key(crit, results[i]))
        THEN CompareRaised
        ELSE LET ranked == SortResults(results, crit)
             IN  [raised |-> FALSE, criteria |-> crit, locations |-> ranked,
                  winner |-> IF ranked # <<>> THEN ranked[1] ELSE PyNone]

----------------------------------------------------------------------------
(* Inputs of generate_weather_alerts *)

\* longest hourly series
MaxHours == 25

HourLens == {0, 3, HeatWindow, MaxHours}

\* a series of n entries: `first` at index 0, `last` at index n-1, `fill` between
Series(n, first, fill, last) ==
    [i \in 1..n |-> IF i = 1 THEN first ELSE IF i = n THEN last ELSE fill]

\* n temperatures: the first h are 31, the last is `last`, the others 30
Temps(n, h, last) ==
    [i \in 1..n |-> IF i <= h THEN Num(31) ELSE IF i = n THEN last ELSE Num(30)]

\* n consecutive hourly timestamps
Times(m) == [i \in 1..m |-> i - 1]

CurrentSet ==
    {EmptyDict}
    \cup {[k \in {"windspeed"} |-> Num(10)]}
    \cup {[temperature |-> t, windspeed |-> Num(10)] :
              t \in {Num(-20), Num(-11), Num(20), PyNone}}

HourlySet ==
    {EmptyDict}
    \cup {[time |-> Times(m),
           temperature_2m |-> Temps(n, h, tl),
           wind_gusts_10m |-> Series(n, wf, Num(50), wl),
           uv_index |-> Series(n, uf, Num(8), ul)] :
              <<n, m, h, tl, wf, wl, uf, ul>> \in
                  {x \in HourLens \X (0..MaxHours) \X (0..MaxHours)
                         \X {Num(30), Num(-11), PyNone}
                         \X {Num(50), Num(80), Num(81)} \X {Num(50), Num(81)}
                         \X {Num(8), Num(9)} \X {Num(8), Num(9)} :
                      /\ x[2] \in {0, x[1] - 1, x[1]}
                      /\ x[3] \in {0, 2, 3, 6, x[1]}
                      /\ x[3] <= x[1]
                      /\ (x[1] = 0 => x[4] = Num(30) /\ x[5] = Num(50)
                                      /\ x[6] = Num(50) /\ x[7] = Num(8)
                                      /\ x[8] = Num(8))}}

DailySet ==
    {EmptyDict}
    \cup {[weather_code |-> c] : c \in {<<0>>, <<3, 95>>, <<97>>}}

\* the variables of the operations a specification does not exercise
AlertsIdle ==
    current = EmptyDict /\ hourly = EmptyDict /\ daily = EmptyDict /\ alerts = <<>>

ComfortIdle ==
    weather = NoneArg /\ air_quality = NoneArg /\ comfort = Fallback

SnapshotIdle ==
    /\ forecast = [current_weather |-> Absent, hourly |-> Absent, daily |-> Absent]
    /\ aq_service = [status |-> "error", current |-> Absent]
    /\ forecast_hours = 1
    /\ response = RaisedResponse

SkiIdle ==
    snow_data = EmptyDict /\ weather_data = EmptyDict /\ grade = ""

\* the record held before interpret_weather_code has returned
NotInterpreted == [description |-> Described(""), category |-> "", severity |-> ""]

CodeIdle ==
    code_arg = Num(0) /\ interpretation = NotInterpreted /\ impact = ""

AstronomyIdle ==
    /\ latitude = Num(0) /\ longitude = Num(0) /\ timezone = "UTC"
    /\ now = [yday |-> 1, hour |-> 12]
    /\ astronomy = AstronomyError("")

SearchIdle ==
    /\ country = NoneStr
    /\ geocoding = [status |-> "error", results |-> <<>>]
    /\ found = SearchRaised

ComfortToolIdle ==
    /\ weather_forecast = [status |-> "error", current_weather |-> Absent]
    /\ air_quality_forecast = [status |-> "error", current |-> Absent]
    /\ comfort_response = ComfortRaised

CompareIdle ==
    /\ locations = <<>>
    /\ criteria = ""
    /\ comparison = CompareRaised

InitAlerts ==
    /\ pc = "call"
    /\ current \in CurrentSet
    /\ hourly \in HourlySet
    /\ daily \in DailySet
    /\ alerts = <<>>
    /\ ComfortIdle
    /\ SnapshotIdle
    /\ SkiIdle
    /\ CodeIdle
    /\ AstronomyIdle
    /\ SearchIdle
    /\ ComfortToolIdle
    /\ CompareIdle

GenerateWeatherAlerts ==
    /\ pc = "call"
    /\ alerts' = generate_weather_alerts(current, hourly, daily)
    /\ pc' = "done"
    /\ UNCHANGED <<current, hourly, daily, comfortVars, snapshotVars, skiVars, codeVars,
                   astronomyVars, searchVars, comfortToolVars, compareVars>>

NextAlerts == GenerateWeatherAlerts

SpecAlerts == InitAlerts /\ [][NextAlerts]_vars

----------------------------------------------------------------------------
(* Inputs of calculate_comfort_index *)

WeatherSet ==
    {DictArg(EmptyDict)}
    \cup {DictArg([temperature |-> Num(t),
                   relative_humidity_2m |-> Num(h),
                   wind_speed_10m |-> Num(w),
                   uv_index |-> Num(u),
                   precipitation_probability |-> Num(p),
                   weather_code |-> Num(c)]) :
              <<t, h, w, u, p, c>> \in
                  {-20, 4, 5, 20, 25, 26, 40} \X {0, 50, 100} \X {0, 10, 40}
                  \X {0, 3, 9} \X {0, 50, 100} \X {0, 2, 45, 65, 99, 7}}
    \cup {DictArg([temperature |-> Num(26),
                   relative_humidity_2m |-> Num(41),
                   wind_speed_10m |-> Num(0),
                   uv_index |-> Num(0),
                   precipitation_probability |-> Num(97),
                   weather_code |-> Num(0)])}
    \cup {NoneArg}
    \cup {DictArg(d) : d \in
              {[k \in {"temperature"} |-> PyNone],
               [k \in {"temperature"} |-> PyStr],
               [k \in {"uv_index"} |-> PyStr],
               [k \in {"precipitation_probability"} |-> PyNone],
               [k \in {"weather_code"} |-> PyNone],
               [temperature |-> Num(30), relative_humidity_2m |-> PyNone],
               [temperature |-> Num(20), relative_humidity_2m |-> PyNone],
               [temperature |-> Num(-20), wind_speed_10m |-> PyNone]}}

AirQualitySet ==
    {NoneArg, DictArg(EmptyDict), DictArg([european_aqi |-> PyNone]),
     DictArg([european_aqi |-> PyStr])}
    \cup {DictArg([european_aqi |-> Num(a)]) : a \in {0, 50, 150}}

InitComfort ==
    /\ pc = "call"
    /\ weather \in WeatherSet
    /\ air_quality \in AirQualitySet
    /\ comfort = Fallback
    /\ AlertsIdle
    /\ SnapshotIdle
    /\ SkiIdle
    /\ CodeIdle
    /\ AstronomyIdle
    /\ SearchIdle
    /\ ComfortToolIdle
    /\ CompareIdle

CalculateComfortIndex ==
    /\ pc = "call"
    /\ \E ties_up \in BOOLEAN :
          comfort' = calculate_comfort_index(weather, air_quality, ties_up)
    /\ pc' = "done"
    /\ UNCHANGED <<weather, air_quality, alertVars, snapshotVars, skiVars, codeVars,
                   astronomyVars, searchVars, comfortToolVars, compareVars>>

NextComfort == CalculateComfortIndex

SpecComfort == InitComfort /\ [][NextComfort]_vars

----------------------------------------------------------------------------
(* Inputs of the get_weather_alerts tool *)

\* longest hourly series and largest forecast_hours of the tool runs
MaxSnapshotHours == 2

\* current conditions: a grid of temperatures, winds and codes, and the values
\* on either side of each temperature and apparent-temperature threshold
CurrentWeatherSet ==
    {Absent}
    \cup {[present |-> TRUE, temperature |-> t, windspeed |-> w, weathercode |-> c] :
              <<t, w, c>> \in
                  ({-20, -6, 20, 31, 36} \X {0, 61, 81} \X {0, 95})
                  \cup {<<30, 0, 0>>, <<32, 0, 0>>, <<33, 0, 0>>, <<35, 0, 0>>,
                        <<-5, 0, 0>>, <<-6, 7, 0>>, <<-6, 15, 0>>, <<-6, 16, 0>>,
                        <<-7, 5, 0>>, <<-7, 6, 0>>}}

DailyWeatherSet ==
    {Absent}
    \cup {[present |-> TRUE, uv_index_max |-> u] :
              u \in {Absent}
                    \cup {[present |-> TRUE, list |-> l] :
                             l \in {<<>>, <<8>>, <<9>>, <<11>>, <<5, 11>>, <<9, 11>>}}}

PrecipitationSeries ==
    UNION {[1..n -> {0, 11, 21}] : n \in 0..MaxSnapshotHours}

HourlyWeatherSet ==
    {Absent}
    \cup {[present |-> TRUE, time |-> Times(m), precipitation |-> p] :
              <<m, p>> \in (1..MaxSnapshotHours) \X PrecipitationSeries}

AirQualityServiceSet ==
    {[status |-> "error", current |-> Absent],
     [status |-> "ok", current |-> Absent]}
    \cup {[status |-> "ok", current |-> [present |-> TRUE, european_aqi |-> a]] :
              a \in {PyNone, Num(80), Num(81), Num(121)}}

InitSnapshot ==
    /\ pc = "call"
    /\ forecast \in [current_weather : CurrentWeatherSet,
                     hourly : HourlyWeatherSet,
                     daily : DailyWeatherSet]
    /\ aq_service \in AirQualityServiceSet
    /\ forecast_hours \in 1..MaxSnapshotHours
    /\ response = RaisedResponse
    /\ AlertsIdle
    /\ ComfortIdle
    /\ SkiIdle
    /\ CodeIdle
    /\ AstronomyIdle
    /\ SearchIdle
    /\ ComfortToolIdle
    /\ CompareIdle

GetWeatherAlerts ==
    /\ pc = "call"
    /\ response' = get_weather_alerts(forecast, aq_service, forecast_hours)
    /\ pc' = "done"
    /\ UNCHANGED <<forecast, aq_service, forecast_hours, alertVars, comfortVars,
                   skiVars, codeVars,
                   astronomyVars, searchVars, comfortToolVars, compareVars>>

NextSnapshot == GetWeatherAlerts

SpecSnapshot == InitSnapshot /\ [][NextSnapshot]_vars

----------------------------------------------------------------------------
(* Inputs of assess_ski_conditions *)

\* the dict d restricted to the keys K
Restrict(d, K) == [k \in K |-> d[k]]

\* snow data with each key present or missing; depths 0.1 .. 1.2 m in tenths
SnowDataSet ==
    {Restrict([snow_depth |-> sd, recent_snowfall |-> rs], K) :
        <<sd, rs, K>> \in
            ({Num(x) : x \in {1, 2, 3, 5, 6, 12}} \cup {PyNone})
            \X ({Num(x) : x \in {0, 10, 11, 15}} \cup {PyNone})
            \X (SUBSET {"snow_depth", "recent_snowfall"})}

SkiWeatherSet ==
    {Restrict([temperature |-> t, weather_code |-> wc], K) :
        <<t, wc, K>> \in
            ({Num(x) : x \in {-16, -15, -11, -10, -5, -4, 0, 1, 4, 5, 8}}
             \cup {PyNone})
            \X {Num(x) : x \in {0, 2, 3, 61}}
            \X (SUBSET {"temperature", "weather_code"})}

InitSki ==
    /\ pc = "call"
    /\ snow_data \in SnowDataSet
    /\ weather_data \in SkiWeatherSet
    /\ grade = ""
    /\ AlertsIdle
    /\ ComfortIdle
    /\ SnapshotIdle
    /\ CodeIdle
    /\ AstronomyIdle
    /\ SearchIdle
    /\ ComfortToolIdle
    /\ CompareIdle

AssessSkiConditions ==
    /\ pc = "call"
    /\ grade' = assess_ski_conditions(snow_data, weather_data)
    /\ pc' = "done"
    /\ UNCHANGED <<snow_data, weather_data, alertVars, comfortVars,
                   snapshotVars, codeVars,
                   astronomyVars, searchVars, comfortToolVars, compareVars>>

NextSki == AssessSkiConditions

SpecSki == InitSki /\ [][NextSki]_vars

----------------------------------------------------------------------------
(* Inputs of interpret_weather_code and get_travel_impact *)

\* largest code looked up; the smallest is -3
MaxCode == 102

CodeRange == (-3) .. MaxCode

InitCodes ==
    /\ pc = "call"
    /\ code_arg \in {Num(x) : x \in CodeRange}
    /\ interpretation = NotInterpreted
    /\ impact = ""
    /\ AlertsIdle
    /\ ComfortIdle
    /\ SnapshotIdle
    /\ SkiIdle
    /\ AstronomyIdle
    /\ SearchIdle
    /\ ComfortToolIdle
    /\ CompareIdle

\* the two lookups are called once each, in either order
InterpretWeatherCode ==
    /\ interpretation = NotInterpreted
    /\ interpretation' = interpret_weather_code(code_arg)
    /\ pc' = IF impact # "" THEN "done" ELSE "call"
    /\ UNCHANGED <<code_arg, impact, alertVars, comfortVars, snapshotVars, skiVars,
                   astronomyVars, searchVars, comfortToolVars, compareVars>>

GetTravelImpact ==
    /\ impact = ""
    /\ impact' = get_travel_impact(code_arg)
    /\ pc' = IF interpretation # NotInterpreted THEN "done" ELSE "call"
    /\ UNCHANGED <<code_arg, interpretation, alertVars, comfortVars,
                   snapshotVars, skiVars,
                   astronomyVars, searchVars, comfortToolVars, compareVars>>

NextCodes == InterpretWeatherCode \/ GetTravelImpact

SpecCodes == InitCodes /\ [][NextCodes]_vars

----------------------------------------------------------------------------
(* Inputs of calculate_astronomy_data *)

Latitudes == {-70, -45, 0, 47, 70, 89}
Longitudes == {-120, 0, 8, 150}
DaysOfYear == {1, 80, 172, 265, 355}

InitAstronomy ==
    /\ pc = "call"
    /\ latitude \in {Num(x) : x \in Latitudes} \cup {PyNone}
    /\ longitude \in {Num(x) : x \in Longitudes}
    /\ timezone \in KnownTimezones \cup {"Mars/Phobos"}
    /\ now \in {[yday |-> d, hour |-> 12] : d \in DaysOfYear}
    /\ astronomy = AstronomyError("")
    /\ AlertsIdle
    /\ ComfortIdle
    /\ SnapshotIdle
    /\ SkiIdle
    /\ CodeIdle
    /\ SearchIdle
    /\ ComfortToolIdle
    /\ CompareIdle

CalculateAstronomyData ==
    /\ pc = "call"
    /\ astronomy' = calculate_astronomy_data(latitude, longitude, timezone, now)
    /\ pc' = "done"
    /\ UNCHANGED <<latitude, longitude, timezone, now, alertVars, comfortVars,
                   snapshotVars, skiVars, codeVars, searchVars, comfortToolVars, compareVars>>

NextAstronomy == CalculateAstronomyData

SpecAstronomy == InitAstronomy /\ [][NextAstronomy]_vars

----------------------------------------------------------------------------
(* Inputs of search_location *)

\* largest number of fetched results
MaxResults == 3

\* the i-th fetched result; its country code is absent, null or a string
GeocodingResult(i, kind) ==
    IF kind = "absent" THEN [id |-> i, name |-> Str("Thun")]
    ELSE [id |-> i, name |-> Str("Thun"),
          country_code |-> IF kind = "null" THEN NoneStr ELSE Str(kind)]

GeocodingResultsSet ==
    UNION {{[i \in 1..n |-> GeocodingResult(i, kinds[i])] :
               kinds \in [1..n -> {"absent", "null", "CH", "ch", "PK"}]} : n \in 0..MaxResults}

InitSearch ==
    /\ pc = "call"
    /\ country \in {NoneStr, Str(""), Str("CH"), Str("ch"), Str("DE")}
    /\ geocoding \in {[status |-> "error", results |-> <<>>]}
                     \cup {[status |-> "ok", results |-> rs] :
                               rs \in GeocodingResultsSet}
    /\ found = SearchRaised
    /\ AlertsIdle
    /\ ComfortIdle
    /\ SnapshotIdle
    /\ SkiIdle
    /\ CodeIdle
    /\ AstronomyIdle
    /\ ComfortToolIdle
    /\ CompareIdle

SearchLocation ==
    /\ pc = "call"
    /\ found' = search_location(country, geocoding)
    /\ pc' = "done"
    /\ UNCHANGED <<country, geocoding, alertVars, comfortVars, snapshotVars,
                   skiVars, codeVars, astronomyVars, comfortToolVars, compareVars>>

NextSearch == SearchLocation

SpecSearch == InitSearch /\ [][NextSearch]_vars

----------------------------------------------------------------------------
(* Inputs of the get_comfort_index tool *)

\* fetched current conditions: temperatures on both sides of 5 and of 25,
\* calm and windy, and a code of each severity
FetchedWeatherSet ==
    {Absent}
    \cup {[present |-> TRUE, temperature |-> t, windspeed |-> w,
           winddirection |-> 180, weathercode |-> c] :
              <<t, w, c>> \in {-20, 4, 20, 26} \X {0, 10, 40}
                               \X {0, 2, 45, 65, 95, 99}}

FetchedAirQualitySet ==
    {Absent}
    \cup {[present |-> TRUE, european_aqi |-> a] :
              a \in {PyNone, Num(0), Num(50), Num(150)}}

InitComfortTool ==
    /\ pc = "call"
    /\ weather_forecast \in
          {[status |-> "error", current_weather |-> Absent]}
          \cup {[status |-> "ok", current_weather |-> cw] : cw \in FetchedWeatherSet}
    /\ air_quality_forecast \in
          {[status |-> "error", current |-> Absent]}
          \cup {[status |-> "ok", current |-> aq] : aq \in FetchedAirQualitySet}
    /\ comfort_response = ComfortRaised
    /\ AlertsIdle
    /\ ComfortIdle
    /\ SnapshotIdle
    /\ SkiIdle
    /\ CodeIdle
    /\ AstronomyIdle
    /\ SearchIdle
    /\ CompareIdle

GetComfortIndex ==
    /\ pc = "call"
    /\ \E ties_up \in BOOLEAN :
          comfort_response' =
              get_comfort_index(weather_forecast, air_quality_forecast, ties_up)
    /\ pc' = "done"
    /\ UNCHANGED <<weather_forecast, air_quality_forecast, alertVars, comfortVars,
                   snapshotVars, skiVars, codeVars, astronomyVars, searchVars, compareVars>>

NextComfortTool == GetComfortIndex

SpecComfortTool == InitComfortTool /\ [][NextComfortTool]_vars

----------------------------------------------------------------------------
(* Inputs of compare_locations *)

\* largest number of compared locations
MaxLocations == 3

\* a forecast with current conditions and the day's
\* precipitation_probability_max
FetchedForecast(temperature, windspeed, weathercode, precipitation) ==
    [status |-> "ok",
     current_weather |-> [present |-> TRUE, temperature |-> temperature,
                          windspeed |-> windspeed, winddirection |-> 180,
                          weathercode |-> weathercode],
     precipitation_probability_max |-> precipitation]

FetchedAqi(a) ==
    [status |-> "ok", current |-> [present |-> TRUE, european_aqi |-> a]]

\* what the two services answer for one location: forecasts whose orders by
\* temperature, wind, code, precipitation and AQI differ, a missing AQI,
\* missing current conditions, and a failure of either request
LocationAnswers ==
    {<<FetchedForecast(20, 5, 0, 90), FetchedAqi(Num(20))>>,
     <<FetchedForecast(26, 20, 61, 0), FetchedAqi(Num(80))>>,
     <<FetchedForecast(4, 10, 2, 50), FetchedAqi(Num(50))>>,
     <<FetchedForecast(-20, 40, 95, 10), FetchedAqi(PyNone)>>,
     <<[status |-> "ok", current_weather |-> Absent,
        precipitation_probability_max |-> 50],
       [status |-> "ok", current |-> Absent]>>,
     <<[status |-> "error", current_weather |-> Absent,
        precipitation_probability_max |-> 0],
       FetchedAqi(Num(20))>>,
     <<FetchedForecast(20, 5, 0, 90), [status |-> "error", current |-> Absent]>>}

\* the i-th location is named by its position
LocationsSet ==
    UNION {{[i \in 1..n |-> [name |-> <<"Zurich", "Bern", "Geneva", "Lugano">>[i], weather |-> f[i][1],
                             air_quality |-> f[i][2]]] :
               f \in [1..n -> LocationAnswers]} :
           n \in 0..MaxLocations}

InitCompare ==
    /\ pc = "call"
    /\ locations \in LocationsSet
    /\ criteria \in {"best_overall", "warmest", "driest", "sunniest",
                      "best_air_quality", "calmest", "nicest"}
    /\ comparison = CompareRaised
    /\ AlertsIdle
    /\ ComfortIdle
    /\ SnapshotIdle
    /\ SkiIdle
    /\ CodeIdle
    /\ AstronomyIdle
    /\ SearchIdle
    /\ ComfortToolIdle

CompareLocations ==
    /\ pc = "call"
    /\ \E ties_up \in [1..Len(locations) -> BOOLEAN] :
          comparison' = compare_locations(locations, criteria, ties_up)
    /\ pc' = "done"
    /\ UNCHANGED <<locations, criteria, alertVars, comfortVars, snapshotVars,
                   skiVars, codeVars, astronomyVars, searchVars, comfortToolVars>>

NextCompare == CompareLocations

SpecCompare == InitCompare /\ [][NextCompare]_vars

----------------------------------------------------------------------------
(* Properties of generate_weather_alerts *)

ArgCurTemp == Get(current, "temperature", Num(20))
ArgTemps == Get(hourly, "temperature_2m", <<>>)
ArgWinds == Get(hourly, "wind_gusts_10m", <<>>)
ArgUvs == Get(hourly, "uv_index", <<>>)
ArgTimes == Get(hourly, "time", <<>>)
ArgCodes == Get(daily, "weather_code", <<>>)

AllNum(s) == \A i \in 1..Len(s) : IsNum(s[i])

Count(type) == Cardinality({i \in 1..Len(alerts) : alerts[i].type = type})

OfType(type) == {alerts[i] : i \in {j \in 1..Len(alerts) : alerts[j].type = type}}

\* all three records present, every sample a number, all series of one length
WellFormed ==
    /\ NonEmpty(current) /\ NonEmpty(hourly) /\ NonEmpty(daily)
    /\ IsNum(ArgCurTemp)
    /\ AllNum(ArgTemps) /\ AllNum(ArgWinds) /\ AllNum(ArgUvs)
    /\ Len(ArgTemps) = Len(ArgTimes)
    /\ Len(ArgWinds) = Len(ArgTimes)
    /\ Len(ArgUvs) = Len(ArgTimes)

\* C1: with non-empty current and daily records and 24 hourly temperatures
\* and 24 timestamps, the result holds exactly one heat alert when at least 3
\* of the temperatures exceed 30 (warning from 6 hours on, watch below), and
\* no heat alert when fewer than 3 do.
C1_HeatAlertOn24Hours ==
    (/\ pc = "done"
     /\ NonEmpty(current) /\ NonEmpty(hourly) /\ NonEmpty(daily)
     /\ Len(ArgTemps) = 24 /\ Len(ArgTimes) = 24
     /\ AllNum(ArgTemps))
    => LET hot == Cardinality({i \in 1..24 : ArgTemps[i].v > 30}) IN
       IF hot >= 3
       THEN /\ Count("heat") = 1
            /\ \A a \in OfType("heat") :
                  a.severity = (IF hot >= 6 THEN "warning" ELSE "watch")
       ELSE Count("heat") = 0

\* C2: the rules are independent: a rule that evaluates cleanly on its own
\* fields and fires contributes its alert, whatever happens in the other rules.
C2_RulesIndependent ==
    (pc = "done" /\ NonEmpty(current) /\ NonEmpty(hourly) /\ NonEmpty(daily))
    => \A r \in {heat_alert(ArgTemps, ArgTimes),
                 cold_alert(ArgCurTemp, ArgTemps, ArgTimes),
                 storm_alert(ArgWinds, ArgCodes, ArgTimes),
                 uv_alert(ArgUvs, ArgTimes),
                 wind_alert(ArgWinds, ArgTimes)} :
          (~r.raised /\ r.out # <<>>) => Count(r.out[1].type) >= 1

\* C6: a cold alert is emitted exactly when the current temperature or one of
\* the first 24 hourly temperatures is below -10; it is a warning when the
\* current temperature is at most -20 and a watch otherwise.
C6_ColdAlertIff ==
    (pc = "done" /\ WellFormed)
    => /\ (Count("cold") >= 1) <=>
              (\/ ArgCurTemp.v < -10
               \/ \E i \in 1..Min(24, Len(ArgTemps)) : ArgTemps[i].v < -10)
       /\ \A a \in OfType("cold") :
              a.severity = (IF ArgCurTemp.v <= -20 THEN "warning" ELSE "watch")

\* C7: a storm alert is emitted exactly when some hourly gust exceeds 80 or
\* some daily weather code is 95, 96 or 99; its severity is warning.
C7_StormAlertIff ==
    (pc = "done" /\ WellFormed)
    => /\ (Count("storm") >= 1) <=>
              (\/ \E i \in 1..Len(ArgWinds) : ArgWinds[i].v > 80
               \/ \E i \in 1..Len(ArgCodes) : ArgCodes[i] \in {95, 96, 99})
       /\ \A a \in OfType("storm") : a.severity = "warning"

\* C8: a wind advisory is emitted exactly when some hourly gust lies in
\* (50,80] and no hourly gust exceeds 80.
C8_WindAlertIff ==
    (pc = "done" /\ WellFormed)
    => /\ (Count("wind") >= 1) <=>
              (/\ \E i \in 1..Len(ArgWinds) :
                     ArgWinds[i].v > 50 /\ ArgWinds[i].v <= 80
               /\ ~\E i \in 1..Len(ArgWinds) : ArgWinds[i].v > 80)
       /\ \A a \in OfType("wind") : a.severity = "advisory"

\* C9: a uv advisory is emitted exactly when some hourly UV sample exceeds 8;
\* it starts at the timestamp of the first such hour and ends at the timestamp
\* of the last such hour plus one, clamped to the end of the time series.
C9_UvAlertIff ==
    (pc = "done" /\ WellFormed)
    => LET high == {i \in 1..Len(ArgUvs) : ArgUvs[i].v > 8} IN
       /\ (Count("uv") >= 1) <=> (high # {})
       /\ \A a \in OfType("uv") :
             /\ a.severity = "advisory"
             /\ a.start = FromSeries(ArgTimes[SetMin(high)])
             /\ a.end = FromSeries(ArgTimes[Min(SetMax(high) + 1, Len(ArgTimes))])

RuleOrder(type) ==
    CASE type = "heat" -> 1
      [] type = "cold" -> 2
      [] type = "storm" -> 3
      [] type = "uv" -> 4
      [] type = "wind" -> 5
      [] OTHER -> 0

\* C10: every returned list is a subsequence of (heat, cold, storm, uv, wind):
\* the types appear in rule order and none appears twice.
C10_RuleOrderNoDuplicates ==
    pc = "done"
    => /\ \A i \in 1..Len(alerts) : RuleOrder(alerts[i].type) >= 1
       /\ \A i, j \in 1..Len(alerts) :
             i < j => RuleOrder(alerts[i].type) < RuleOrder(alerts[j].type)

\* a call in which all five rules fired
C10_Witness ==
    /\ pc = "done"
    /\ Len(alerts) = 5

----------------------------------------------------------------------------
(* Properties of calculate_comfort_index *)

ArgAqi ==
    IF air_quality.present /\ NonEmpty(air_quality.d)
    THEN Get(air_quality.d, "european_aqi", Num(50))
    ELSE Num(50)

InRange(x) == 0 <= x /\ x <= 1000

\* C4: with humidity and precipitation probability in 0..100 and UV index and
\* AQI not negative, overall and each of the five factors lie in [0,100].
C4_ScoresWithin0And100 ==
    (/\ pc = "done"
     /\ weather.present
     /\ \A k \in DOMAIN weather.d : IsNum(weather.d[k])
     /\ IsNum(ArgAqi) /\ ArgAqi.v >= 0
     /\ Get(weather.d, "relative_humidity_2m", Num(50)).v \in 0..100
     /\ Get(weather.d, "precipitation_probability", Num(0)).v \in 0..100
     /\ Get(weather.d, "uv_index", Num(3)).v >= 0)
    => /\ InRange(comfort.overall)
       /\ InRange(comfort.factors.thermal_comfort)
       /\ InRange(comfort.factors.air_quality)
       /\ InRange(comfort.factors.precipitation_risk)
       /\ InRange(comfort.factors.uv_safety)
       /\ InRange(comfort.factors.weather_condition)

----------------------------------------------------------------------------
(* Properties of the get_weather_alerts tool *)

\* the current European AQI the air-quality service would report
ServiceAqi ==
    IF aq_service.status = "ok" /\ aq_service.current.present
    THEN aq_service.current.european_aqi
    ELSE PyNone

AirQualityAlerts ==
    {response.alerts[i] : i \in {j \in 1..Len(response.alerts) :
                                    response.alerts[j].type = "air_quality"}}

\* C5: when the air-quality service would report a current European AQI
\* above 80 the result holds exactly one air_quality alert, a warning above
\* 120 and a watch otherwise; at 80 or below, or without a value, it holds none.
C5_AirQualityAlert ==
    (pc = "done" /\ ~response.raised)
    => IF IsNum(ServiceAqi) /\ ServiceAqi.v > 80
       THEN /\ CountBy(response.alerts, "type", "air_quality") = 1
            /\ \A a \in AirQualityAlerts :
                  a.severity = (IF ServiceAqi.v > 120 THEN "warning" ELSE "watch")
       ELSE CountBy(response.alerts, "type", "air_quality") = 0

----------------------------------------------------------------------------
(* Properties of the get_weather_alerts tool: the rules on the snapshot *)

Cw == forecast.current_weather

SnapshotAlerts(type) ==
    {response.alerts[i] : i \in {j \in 1..Len(response.alerts) :
                                    response.alerts[j].type = type}}

SnapshotCount(type) == CountBy(response.alerts, "type", type)

\* C11: the call yields a heat alert exactly when the current temperature is
\* above 30; it is a warning above 35, a watch above 32 and up to 35, and an
\* advisory above 30 and up to 32.
C11_SnapshotHeatAlert ==
    pc = "done"
    => IF Cw.present /\ Cw.temperature > 30
       THEN /\ SnapshotCount("heat") = 1
            /\ \A a \in SnapshotAlerts("heat") :
                  a.severity = (IF Cw.temperature > 35 THEN "warning"
                                ELSE IF Cw.temperature > 32 THEN "watch"
                                ELSE "advisory")
       ELSE SnapshotCount("heat") = 0

\* C12: the call yields a cold alert exactly when the current temperature is
\* below -5; with apparent = temperature - windspeed * 0.6 it is a warning
\* below -15, a watch from -15 to below -10 and an advisory otherwise; heat
\* and cold alerts never appear together.
C12_SnapshotColdAlert ==
    pc = "done"
    => /\ IF Cw.present /\ Cw.temperature < -5
          THEN LET apparent == Cw.temperature * 10 - Cw.windspeed * 6 IN
               /\ SnapshotCount("cold") = 1
               /\ \A a \in SnapshotAlerts("cold") :
                     a.severity = (IF apparent < -150 THEN "warning"
                                   ELSE IF apparent < -100 THEN "watch"
                                   ELSE "advisory")
          ELSE SnapshotCount("cold") = 0
       /\ ~(SnapshotCount("heat") > 0 /\ SnapshotCount("cold") > 0)

\* the UV maxima of the forecast days, empty when there are none
UvMaxima ==
    IF forecast.daily.present /\ forecast.daily.uv_index_max.present
    THEN forecast.daily.uv_index_max.list
    ELSE <<>>

\* C13: a uv alert is emitted exactly when the first day's UV maximum is above
\* 8, a warning above 10 and a watch otherwise, whatever the later days hold.
C13_SnapshotUvFirstDayOnly ==
    pc = "done"
    => IF UvMaxima # <<>> /\ UvMaxima[1] > 8
       THEN /\ SnapshotCount("uv") = 1
            /\ \A a \in SnapshotAlerts("uv") :
                  a.severity = (IF UvMaxima[1] > 10 THEN "warning" ELSE "watch")
       ELSE SnapshotCount("uv") = 0

\* a watch on a first-day maximum of 9 although the second day reaches 11
C13_Witness ==
    /\ pc = "done"
    /\ UvMaxima = <<9, 11>>
    /\ SnapshotCount("uv") = 1
    /\ \A a \in SnapshotAlerts("uv") : a.severity = "watch"

\* indices of the hourly precipitation samples above 10 mm that lie below
\* min(forecast_hours, number of hourly timestamps)
HeavyHours ==
    IF ~forecast.hourly.present THEN {}
    ELSE {i \in Indices(forecast.hourly.precipitation) :
             /\ i < Min(forecast_hours, Len(forecast.hourly.time))
             /\ At(forecast.hourly.precipitation, i) > 10}

\* C14: at most one precipitation alert per call; there is one exactly when a
\* sample above 10 mm lies in the checked hours; it starts at the first such
\* hour, as a warning when that sample is above 20 and a watch otherwise.
C14_SnapshotFirstHeavyHour ==
    pc = "done"
    => IF HeavyHours # {}
       THEN LET i == SetMin(HeavyHours) IN
            /\ SnapshotCount("precipitation") = 1
            /\ \A a \in SnapshotAlerts("precipitation") :
                  /\ a.start = FromNow(i)
                  /\ a.severity = (IF At(forecast.hourly.precipitation, i) > 20
                                   THEN "warning" ELSE "watch")
       ELSE SnapshotCount("precipitation") = 0

\* C15: a call on a fetched forecast never raises, whichever of its optional
\* parts are missing or empty.
C15_SnapshotNeverRaises ==
    pc = "done" => ~response.raised

----------------------------------------------------------------------------
(* Properties of calculate_comfort_index: recommendation and failures *)

Recommendations ==
    {"Perfect for outdoor activities", "Good conditions for outdoor activities",
     "Fair conditions; plan accordingly",
     "Poor conditions; seek indoor alternatives",
     "Very poor conditions; avoid outdoor activities"}

\* C16: in a result that is not the fallback, the recommendation is the band
\* of the returned overall value (80, 60, 40 and 20 are the lower ends).
C16_RecommendationMatchesOverall ==
    (pc = "done" /\ comfort.recommendation \in Recommendations)
    => comfort.recommendation = Recommendation(comfort.overall * 100)

\* the AQI the call reads
ArgComfortAqi ==
    IF air_quality.present /\ NonEmpty(air_quality.d)
    THEN Get(air_quality.d, "european_aqi", Num(50))
    ELSE Num(50)

\* C17: the call returns a computed result or exactly the fallback record;
\* a None weather argument, a temperature that is None or a string, and an
\* AQI that is None or a string all give the fallback record.
C17_FailuresGiveFallback ==
    pc = "done"
    => /\ comfort = Fallback \/ comfort.recommendation \in Recommendations
       /\ ~weather.present => comfort = Fallback
       /\ (weather.present /\ ~IsNum(Get(weather.d, "temperature", Num(15))))
             => comfort = Fallback
       /\ ~IsNum(ArgComfortAqi) => comfort = Fallback

C17_Witness ==
    pc = "done" /\ ~weather.present /\ comfort = Fallback

----------------------------------------------------------------------------
(* Properties of assess_ski_conditions *)

SkiField(d, k) == Get(d, k, Num(0))

\* every field that is present holds a number
SkiNumeric ==
    /\ \A k \in DOMAIN snow_data : IsNum(snow_data[k])
    /\ \A k \in DOMAIN weather_data : IsNum(weather_data[k])

ExcellentRule ==
    /\ SkiField(snow_data, "recent_snowfall").v > 10
    /\ -15 <= SkiField(weather_data, "temperature").v
    /\ SkiField(weather_data, "temperature").v <= -5
    /\ SkiField(weather_data, "weather_code").v \in {0, 1, 2}

GoodRule ==
    /\ SkiField(snow_data, "snow_depth").v > 5
    /\ -10 <= SkiField(weather_data, "temperature").v
    /\ SkiField(weather_data, "temperature").v <= 0
    /\ SkiField(weather_data, "weather_code").v \in {0, 1, 2, 3}

FairRule ==
    /\ SkiField(snow_data, "snow_depth").v > 2
    /\ SkiField(weather_data, "temperature").v < 5

\* C18: on numeric fields, a missing one counting as 0, the grade is that of
\* the first rule that matches in the order Excellent, Good, Fair, and Poor
\* when none does; it is always one of the four grades.
C18_SkiFirstMatchWins ==
    (pc = "done" /\ SkiNumeric)
    => /\ grade \in {"Excellent", "Good", "Fair", "Poor"}
       /\ grade = (IF ExcellentRule THEN "Excellent"
                   ELSE IF GoodRule THEN "Good"
                   ELSE IF FairRule THEN "Fair"
                   ELSE "Poor")

\* Excellent although the Good and Fair rules match as well
C18_Witness ==
    /\ pc = "done" /\ SkiNumeric
    /\ ExcellentRule /\ GoodRule /\ FairRule
    /\ grade = "Excellent"

----------------------------------------------------------------------------
(* Properties of interpret_weather_code and get_travel_impact *)

Interpreted == interpretation # NotInterpreted

\* C19: every integer code gets an answer; a code of the table gets its fixed
\* description, category and severity, and any other integer, negative, above
\* 99 or a gap of the table, gets category Unknown, severity unknown and a
\* description that names the code.
C19_LookupTotal ==
    Interpreted
    => IF code_arg.v \in WeatherCodes
       THEN /\ interpretation.description = Described(CodeDescription(code_arg.v))
            /\ interpretation.category = CodeCategory(code_arg.v)
            /\ interpretation.severity = CodeSeverity(code_arg.v)
            /\ interpretation.category # "Unknown"
            /\ interpretation.severity
                  \in {"none", "low", "medium", "high", "extreme"}
            /\ code_arg.v = 0 =>
                  interpretation = [description |-> Described("Clear sky"),
                                    category |-> "Clear", severity |-> "none"]
            /\ code_arg.v = 99 =>
                  interpretation =
                      [description |-> Described("Thunderstorm with heavy hail"),
                       category |-> "Thunderstorm", severity |-> "extreme"]
       ELSE interpretation = [description |-> UnknownDescription(code_arg),
                              category |-> "Unknown", severity |-> "unknown"]

\* an unknown answer for a code in 0..99 that the table does not hold
C19_Witness ==
    /\ Interpreted
    /\ code_arg.v = 4
    /\ interpretation.category = "Unknown"
    /\ interpretation.description.names = Num(4)

\* C20: the travel impact of a code is the image of its severity under
\* none->none, low->minor, medium->moderate, high->significant,
\* extreme->severe; 95 and 65 give significant, 99 severe, 0 none, and a code
\* outside the table gives unknown.
C20_TravelImpactFromSeverity ==
    impact # ""
    => LET severity == IF code_arg.v \in WeatherCodes
                       THEN CodeSeverity(code_arg.v) ELSE "unknown"
       IN  /\ severity = "none" => impact = "none"
           /\ severity = "low" => impact = "minor"
           /\ severity = "medium" => impact = "moderate"
           /\ severity = "high" => impact = "significant"
           /\ severity = "extreme" => impact = "severe"
           /\ severity = "unknown" => impact = "unknown"
           /\ code_arg.v \in {95, 65} => impact = "significant"
           /\ code_arg.v = 99 => impact = "severe"
           /\ code_arg.v = 0 => impact = "none"
           /\ Interpreted => impact = impact_map(interpretation.severity)

C20_Witness ==
    /\ Interpreted
    /\ code_arg.v = 95
    /\ impact = "significant"

----------------------------------------------------------------------------
(* Properties of generate_weather_alerts: the guard and the alert windows *)

\* C25: when the current, the hourly or the daily record is empty or absent
\* the result is the empty list, whatever the other records hold.
C25_EmptyRecordGivesNoAlerts ==
    (pc = "done" /\ (~NonEmpty(current) \/ ~NonEmpty(hourly) \/ ~NonEmpty(daily)))
    => alerts = <<>>

\* no current record, while the gusts and the daily codes would raise a storm
C25_Witness ==
    /\ pc = "done"
    /\ ~NonEmpty(current) /\ NonEmpty(hourly) /\ NonEmpty(daily)
    /\ high_wind_hours(ArgWinds) # {}
    /\ thunderstorm_codes(ArgCodes) # {}
    /\ alerts = <<>>

ArgHighWind == high_wind_hours(ArgWinds)

LastTimeIndex == Len(ArgTimes) - 1

\* C26 as stated: a storm alert raised by high wind with hourly timestamps
\* starts at the first hour with a gust above 80 and ends at that index + 2,
\* clamped to the last timestamp; raised by daily codes alone it starts now.
C26_StormWindowFromFirstHour ==
    pc = "done"
    => \A a \in OfType("storm") :
          IF ArgHighWind # {} /\ ArgTimes # <<>>
          THEN /\ a.start = FromSeries(At(ArgTimes, SetMin(ArgHighWind)))
               /\ a.end = FromSeries(At(ArgTimes,
                               Min(SetMin(ArgHighWind) + 2, LastTimeIndex)))
          ELSE ArgHighWind = {} => a.start = FromNow(0)

\* C26 amended: the window starts at the first hour with a gust above 80 and
\* ends at the LAST such index + 2, clamped to the last timestamp; raised by
\* daily codes alone it runs from now to now + 4 hours.
C26_StormWindowToLastHour ==
    pc = "done"
    => \A a \in OfType("storm") :
          IF ArgHighWind # {} /\ ArgTimes # <<>>
          THEN /\ a.start = FromSeries(At(ArgTimes, SetMin(ArgHighWind)))
               /\ a.end = FromSeries(At(ArgTimes,
                               Min(SetMax(ArgHighWind) + 2, LastTimeIndex)))
          ELSE ArgHighWind = {} => a.start = FromNow(0) /\ a.end = FromNow(4)

\* a storm alert whose first and last high-wind hours are far apart
C26_Witness ==
    /\ pc = "done"
    /\ OfType("storm") # {}
    /\ ArgTimes # <<>>
    /\ ArgHighWind # {}
    /\ SetMin(ArgHighWind) + 2 < SetMax(ArgHighWind)
    /\ SetMax(ArgHighWind) <= LastTimeIndex

\* indices at which the hourly time sequence holds the timestamp ts
TimeIndex(ts) == {i \in Indices(ArgTimes) : At(ArgTimes, i) = ts}

\* C29: every alert window is well ordered: start and end are timestamps of
\* the hourly sequence, start not after end, or, when the sequence is empty
\* or a storm comes from the daily codes alone, both are clock times with
\* start before end.
C29_WindowsWellOrdered ==
    pc = "done"
    => \A n \in 1..Len(alerts) :
          LET a == alerts[n] IN
          \/ /\ a.start.src = "series" /\ a.end.src = "series"
             /\ \E i \in TimeIndex(a.start.v) : \E j \in TimeIndex(a.end.v) : i <= j
          \/ /\ a.start.src = "now" /\ a.end.src = "now"
             /\ a.start.v < a.end.v
             /\ ArgTimes = <<>> \/ (a.type = "storm" /\ ArgHighWind = {})

\* a result that holds a window from the series and a window from the clock
C29_Witness ==
    /\ pc = "done"
    /\ \E n \in 1..Len(alerts) : alerts[n].start.src = "series"
    /\ \E n \in 1..Len(alerts) : alerts[n].start.src = "now"

----------------------------------------------------------------------------
(* Properties of the get_weather_alerts tool: the summary *)

Summary == response.summary

ByTypeTotal ==
    Summary.by_type["storm"] + Summary.by_type["heat"] + Summary.by_type["cold"]
    + Summary.by_type["uv"] + Summary.by_type["wind"]
    + Summary.by_type["air_quality"] + Summary.by_type["precipitation"]

BySeverityTotal ==
    Summary.by_severity["warning"] + Summary.by_severity["watch"]
    + Summary.by_severity["advisory"]

\* C28: in every result total_alerts is the length of alerts, the sum of the
\* seven counts by type and the sum of the three counts by severity, and
\* every alert has one of the seven types and one of the three severities.
C28_SummaryCountsAgree ==
    (pc = "done" /\ ~response.raised)
    => /\ Summary.total_alerts = Len(response.alerts)
       /\ ByTypeTotal = Len(response.alerts)
       /\ BySeverityTotal = Len(response.alerts)
       /\ DOMAIN Summary.by_type = AlertTypes
       /\ DOMAIN Summary.by_severity = Severities
       /\ \A i \in 1..Len(response.alerts) :
             /\ response.alerts[i].type \in AlertTypes
             /\ response.alerts[i].severity \in Severities

\* a result with four alerts, several of them warnings
C28_Witness ==
    /\ pc = "done" /\ ~response.raised
    /\ Len(response.alerts) >= 4
    /\ Summary.by_severity["warning"] >= 2

----------------------------------------------------------------------------
(* Properties of calculate_astronomy_data *)

IsError == "error" \in DOMAIN astronomy

NumericPosition == IsNum(latitude) /\ IsNum(longitude)

\* C21 as stated: an invalid timezone name gives the error record.
C21_InvalidTimezoneGivesError ==
    (pc = "done" /\ timezone \notin KnownTimezones)
    => /\ IsError
       /\ astronomy.sunrise = PyNone /\ astronomy.sunset = PyNone

\* C21 amended: an invalid timezone name is replaced by UTC; for a numeric
\* position the call returns the computed record, sunrise and sunset set
\* and localized to UTC, and no error entry.
C21_InvalidTimezoneFallsBackToUtc ==
    (pc = "done" /\ timezone \notin KnownTimezones /\ NumericPosition)
    => /\ ~IsError
       /\ astronomy.sunrise.t = "datetime" /\ astronomy.sunset.t = "datetime"
       /\ astronomy.sunrise.tz = "UTC" /\ astronomy.sunset.tz = "UTC"

C21_Witness ==
    /\ pc = "done"
    /\ timezone = "Mars/Phobos"
    /\ NumericPosition
    /\ ~IsError
    /\ astronomy.sunrise.tz = "UTC"

\* -tan(lat) * tan(declination) lies outside [-1, 1]: polar day or night
Polar ==
    /\ NumericPosition
    /\ LET c == SunCosH[<<latitude.v, longitude.v, now.yday>>]
       IN  c < -MaxCos \/ c > MaxCos

\* C22: in polar day and polar night the value is clamped, the call does not
\* fail, sunrise and sunset are set and the day length is within 0..24 hours.
C22_PolarClamped ==
    (pc = "done" /\ Polar)
    => /\ ~IsError
       /\ astronomy.sunrise.t = "datetime" /\ astronomy.sunset.t = "datetime"
       /\ astronomy.day_length_hours >= 0
       /\ astronomy.day_length_hours <= 240
       /\ astronomy.day_length_hours \in {0, 240}

\* polar day: 24 hours between sunrise and sunset
C22_Witness ==
    /\ pc = "done" /\ Polar
    /\ ~IsError
    /\ astronomy.day_length_hours = 240

\* C30: in a record without error the windows are ordered: sunrise, golden
\* hour start, golden hour end, sunset = blue hour start, blue hour end.
C30_WindowsOrdered ==
    (pc = "done" /\ ~IsError)
    => /\ astronomy.sunrise.v <= astronomy.golden_hour.start.v
       /\ astronomy.golden_hour.start.v <= astronomy.golden_hour.end.v
       /\ astronomy.golden_hour.end.v <= astronomy.sunset.v
       /\ astronomy.sunset = astronomy.blue_hour.start
       /\ astronomy.blue_hour.start.v < astronomy.blue_hour.end.v

----------------------------------------------------------------------------
(* Properties of search_location *)

Fetched == geocoding.results

\* the fetch succeeded and every country code that was sent is a string
SearchWellFormed ==
    /\ geocoding.status = "ok"
    /\ \A i \in 1..Len(Fetched) :
          "country_code" \in DOMAIN Fetched[i] => Fetched[i].country_code.t = "str"

\* positions of the fetched results whose code equals the country, whatever the case
MatchingRanks ==
    {i \in 1..Len(Fetched) :
        /\ "country_code" \in DOMAIN Fetched[i]
        /\ Upper(Fetched[i].country_code.s) = Upper(country.s)}

CountryGiven == country.t = "str" /\ country.s # ""

\* C23: with a country code the call returns the fetched results whose code
\* equals it, compared without regard to case, in their order, when there is
\* at least one; when there is none, and when no country is given, it
\* returns all fetched results.  Stated for fetched results whose country
\* code is a string or missing.
C23_CountryFilter ==
    (pc = "done" /\ SearchWellFormed)
    => /\ ~found.raised
       /\ IF CountryGiven /\ MatchingRanks # {}
          THEN /\ Len(found.results) = Cardinality(MatchingRanks)
               /\ \A i \in 1..Len(found.results) :
                     /\ "country_code" \in DOMAIN found.results[i]
                     /\ Upper(found.results[i].country_code.s) = Upper(country.s)
               /\ \A i \in MatchingRanks :
                     \E j \in 1..Len(found.results) : found.results[j] = Fetched[i]
               /\ \A j, k \in 1..Len(found.results) :
                     j < k => found.results[j].id < found.results[k].id
          ELSE found.results = Fetched

\* country "ch" keeps the one "CH" result out of three
C23_Witness ==
    /\ pc = "done" /\ SearchWellFormed
    /\ country = Str("ch")
    /\ Len(Fetched) = 3
    /\ Cardinality(MatchingRanks) = 1
    /\ Len(found.results) = 1

----------------------------------------------------------------------------
(* Properties of the get_comfort_index tool *)

\* the tool returned a computed index for fetched current conditions
ComfortComputed ==
    /\ pc = "done"
    /\ ~comfort_response.raised
    /\ weather_forecast.current_weather.present
    /\ comfort_response.comfort_index # Fallback

FetchedCurrent == weather_forecast.current_weather

\* C27: the comfort result of the tool reflects the fetched current
\* conditions: the weather_condition factor is the severity score of the
\* fetched weather code (100 for code 0, 40 for code 95, 10 for code 99) and,
\* below 5 degrees, the thermal factor is the one of the fetched wind speed.
C27_ComfortReflectsFetched ==
    ComfortComputed
    => /\ comfort_response.comfort_index.factors.weather_condition
             = 10 * severity_map(CodeSeverity(FetchedCurrent.weathercode))
       /\ FetchedCurrent.temperature < 5 =>
             comfort_response.comfort_index.factors.thermal_comfort
                 = Thermal(Num(FetchedCurrent.temperature), Num(50),
                           Num(FetchedCurrent.windspeed)).val

----------------------------------------------------------------------------
(* Properties of compare_locations *)

Ranked == comparison.locations

\* the ranked entry i comes from a location whose current conditions and
\* current air quality index were fetched
Measured(i) ==
    /\ "error" \notin DOMAIN Ranked[i]
    /\ \E k \in 1..Len(locations) :
          /\ locations[k].name = Ranked[i].name
          /\ locations[k].weather.current_weather.present
          /\ locations[k].air_quality.current.present
          /\ IsNum(locations[k].air_quality.current.european_aqi)

\* what the services answered for the location of the ranked entry i
FetchedFor(i) ==
    LET k == CHOOSE k \in 1..Len(locations) : locations[k].name = Ranked[i].name
    IN  locations[k]

\* entry i may stand before entry j under the criterion
RanksBefore(i, j) ==
    CASE criteria = "warmest" ->
             FetchedFor(i).weather.current_weather.temperature
                 >= FetchedFor(j).weather.current_weather.temperature
      [] criteria = "driest" ->
             FetchedFor(i).weather.precipitation_probability_max
                 <= FetchedFor(j).weather.precipitation_probability_max
      [] criteria = "sunniest" ->
             FetchedFor(i).weather.current_weather.weathercode
                 <= FetchedFor(j).weather.current_weather.weathercode
      [] criteria = "best_air_quality" ->
             FetchedFor(i).air_quality.current.european_aqi.v
                 <= FetchedFor(j).air_quality.current.european_aqi.v
      [] criteria = "calmest" ->
             FetchedFor(i).weather.current_weather.windspeed
                 <= FetchedFor(j).weather.current_weather.windspeed
      [] OTHER -> Ranked[i].comfort_index.v >= Ranked[j].comfort_index.v

\* C24: the returned list is ranked by the requested criterion and its first
\* entry is the winner: warmest by highest temperature, driest by lowest
\* precipitation probability, sunniest by lowest weather code,
\* best_air_quality by lowest AQI, calmest by lowest wind speed, any other
\* criterion by highest comfort index.
C24_RankedByCriterion ==
    (pc = "done" /\ ~comparison.raised)
    => /\ comparison.winner = (IF Ranked # <<>> THEN Ranked[1] ELSE PyNone)
       /\ \A i, j \in 1..Len(Ranked) :
             (i < j /\ Measured(i) /\ Measured(j)) => RanksBefore(i, j)

====
